---- MODULE Spec2Model ----
(***************************************************************************)
(* Record pipeline of the Excel automation tool:                           *)
(*   ExcelProcessor  (src/automation_tool_fixed.py): remove_empty_rows,    *)
(*                   process_duplicates_with_order_preservation            *)
(*   MaterialSorter  (src/material_sorter.py): extract_thickness_from_     *)
(*                   material, sort_data_by_thickness, _populate_worksheet *)
(*   ExcelAutomationGUI (src/excel_automation_gui.py): process_file,       *)
(*                   create_sorted_workbook_auto                           *)
(*   ExcelToTxtConverter (src/excel_to_txt_converter.py): the names of     *)
(*                   the text files                                        *)
(* Text is a sequence of one-character strings, so that the string         *)
(* operations of the code (replace, strip, float(), re.search) are         *)
(* computed character by character.  A cell is a tagged value.             *)
(***************************************************************************)
EXTENDS Integers, Sequences, FiniteSets, TLC

VARIABLES
    xls,       \* rows of the input workbook's sheet, as read_excel returns them
    df,        \* ExcelProcessor.df: NoDf, or [cols, index, rows]
    op,        \* the last operation called
    args,      \* its arguments
    ret,       \* its return value: "none", "True", "False"
    pre,       \* ExcelProcessor.df when that operation was called
    saved,     \* content of the processed file written by the save stage
    sdf,       \* MaterialSorter.df
    sorted,    \* MaterialSorter: hasattr(self, 'thickness_groups')
    thickness_groups,        \* insertion-ordered dict: Seq of [label, rows]
    unmatched_rows,
    total_input_quantity,
    total_grouped_quantity,
    order_number,  \* the text of the order number field of the window
    current_year,  \* datetime.now().year
    order_id,  \* the OrderID of the run, a text
    workbook,  \* the workbook by thickness: NoBook, or [name, sheets]
    txt_files,  \* names of the text files written by the converter
    input_file,  \* ExcelProcessor.input_file: NoPath, or [dir, name]
    has_workbook,  \* ExcelProcessor.workbook and .worksheet are not None
    output_file,  \* ExcelProcessor.output_file: NoPath, or [dir, name]
    disk,  \* the files the save can meet: a set of [dir, name, data]
    attempts,  \* the writes save_data_simple tried, in order: [path, outcome]
    converter_workbook  \* ExcelToTxtConverter.workbook: NoBook for None

procVars == <<df, op, args, ret, pre>>
sortVars == <<sdf, sorted, thickness_groups, unmatched_rows,
              total_input_quantity, total_grouped_quantity>>
bookVars == <<order_number, current_year, order_id, workbook, txt_files>>
diskVars == <<input_file, has_workbook, output_file, disk, attempts, converter_workbook>>
vars == <<xls, df, op, args, ret, pre, saved, sdf, sorted, thickness_groups,
          unmatched_rows, total_input_quantity, total_grouped_quantity,
          order_number, current_year, order_id, workbook, txt_files,
          input_file, has_workbook, output_file, disk, attempts,
          converter_workbook>>

-----------------------------------------------------------------------------
(* Bounds of the model *)

MaxRows == 3
MaxPieces == 4

-----------------------------------------------------------------------------
(* Text *)

Digits == {"0", "1", "2", "3", "4", "5", "6", "7", "8", "9"}

DigitVal(c) ==
    CASE c = "0" -> 0 [] c = "1" -> 1 [] c = "2" -> 2 [] c = "3" -> 3
      [] c = "4" -> 4 [] c = "5" -> 5 [] c = "6" -> 6 [] c = "7" -> 7
      [] c = "8" -> 8 [] c = "9" -> 9

DigitChar(d) == <<"0", "1", "2", "3", "4", "5", "6", "7", "8", "9">>[d + 1]

\* \s of the re module and the characters str.strip() removes
IsSpace(c) == c \in {" ", "\t", "\n"}

RECURSIVE ReplaceChar(_, _, _)
\* str.replace(a, b) for a one-character a; b is a text (possibly empty)
ReplaceChar(s, a, b) ==
    IF s = <<>> THEN <<>>
    ELSE (IF Head(s) = a THEN b ELSE <<Head(s)>>) \o ReplaceChar(Tail(s), a, b)

RECURSIVE LStrip(_)
LStrip(s) == IF s # <<>> /\ IsSpace(Head(s)) THEN LStrip(Tail(s)) ELSE s

RECURSIVE RStrip(_)
RStrip(s) ==
    IF s # <<>> /\ IsSpace(s[Len(s)]) THEN RStrip(SubSeq(s, 1, Len(s) - 1)) ELSE s

\* str.strip()
Strip(s) == RStrip(LStrip(s))

AllDigits(s) == \A i \in 1..Len(s) : s[i] \in Digits

RECURSIVE DigitsVal(_)
\* int() of a text of digits
DigitsVal(s) ==
    IF s = <<>> THEN 0
    ELSE 10 * DigitsVal(SubSeq(s, 1, Len(s) - 1)) + DigitVal(s[Len(s)])

RECURSIVE NatToStr(_)
NatToStr(n) == IF n < 10 THEN <<DigitChar(n)>>
               ELSE NatToStr(n \div 10) \o <<DigitChar(n % 10)>>

\* str() of an int
IntToStr(n) == IF n < 0 THEN <<"-">> \o NatToStr(0 - n) ELSE NatToStr(n)

-----------------------------------------------------------------------------
(* Cells *)

Null == [t |-> "null", s |-> <<>>, n |-> 0]            \* NaN / None
Txt(s) == [t |-> "str", s |-> s, n |-> 0]
Num(n) == [t |-> "int", s |-> <<>>, n |-> n]
Flt(tenths) == [t |-> "float", s |-> <<>>, n |-> tenths]   \* n / 10
Bool(b) == [t |-> "bool", s |-> <<>>, n |-> IF b THEN 1 ELSE 0]
Inf == [t |-> "inf", s |-> <<>>, n |-> 0]              \* float('inf')
Date == [t |-> "date", s |-> <<>>, n |-> 0]            \* a Timestamp

\* pd.isna(v) / not Series.notna()
IsNa(v) == v.t = "null"

\* v != '' (elementwise) / not (v == '')
NotEmptyStr(v) == ~(v.t = "str" /\ v.s = <<>>)

\* str(v)
PyStr(v) ==
    CASE v.t = "str" -> v.s
      [] v.t = "int" -> IntToStr(v.n)
      [] v.t = "float" ->
            (IF v.n < 0 THEN <<"-">> ELSE <<>>)
            \o NatToStr((IF v.n < 0 THEN 0 - v.n ELSE v.n) \div 10)
            \o <<".">>
            \o <<DigitChar((IF v.n < 0 THEN 0 - v.n ELSE v.n) % 10)>>
      [] v.t = "bool" -> IF v.n = 1 THEN <<"T", "r", "u", "e">>
                         ELSE <<"F", "a", "l", "s", "e">>
      [] v.t = "inf" -> <<"i", "n", "f">>
      [] v.t = "null" -> <<"n", "a", "n">>
      [] v.t = "date" -> <<"2", "0", "2", "5", "-", "0", "1", "-", "0", "1",
                           " ", "0", "0", ":", "0", "0", ":", "0", "0">>

-----------------------------------------------------------------------------
(* float(), round() and int() on text.  The grammar covered is               *)
(*   [+-] digits [. [digits]]  |  [+-] . digits  |  [+-] inf  |  [+-] nan    *)
(* between optional surrounding whitespace; the texts of the model use no    *)
(* exponent and no underscore.                                               *)

\* the digits before the first character that is no digit
RECURSIVE LeadDigits(_)
LeadDigits(s) ==
    IF s # <<>> /\ Head(s) \in Digits THEN <<Head(s)>> \o LeadDigits(Tail(s))
    ELSE <<>>

DropSign(s) == IF s # <<>> /\ Head(s) \in {"+", "-"} THEN Tail(s) ELSE s

\* float(s): [kind |-> "err" | "nan" | "inf" | "fin", neg, ip, fr]
\* a finite value is (-1)^neg * (ip + 0.fr)
PyFloat(s) ==
    LET Err == [kind |-> "err", neg |-> FALSE, ip |-> 0, fr |-> <<>>]
        Parsed(neg, u, i, r, f) ==
            IF u = <<"i", "n", "f">>
            THEN [kind |-> "inf", neg |-> neg, ip |-> 0, fr |-> <<>>]
            ELSE IF u = <<"n", "a", "n">>
            THEN [kind |-> "nan", neg |-> neg, ip |-> 0, fr |-> <<>>]
            ELSE IF r = <<>>
            THEN IF i = <<>> THEN Err
                 ELSE [kind |-> "fin", neg |-> neg, ip |-> DigitsVal(i), fr |-> <<>>]
            ELSE IF Head(r) = "." /\ AllDigits(f) /\ (i # <<>> \/ f # <<>>)
            THEN [kind |-> "fin", neg |-> neg, ip |-> DigitsVal(i), fr |-> f]
            ELSE Err
        Rest(neg, u, i, r) ==
            Parsed(neg, u, i, r, IF r # <<>> /\ Head(r) = "." THEN Tail(r) ELSE <<>>)
        Split(neg, u, i) == Rest(neg, u, i, SubSeq(u, Len(i) + 1, Len(u)))
        Unsigned(neg, u) == Split(neg, u, LeadDigits(u))
        Stripped(b) == Unsigned(b # <<>> /\ Head(b) = "-", DropSign(b))
    IN  Stripped(Strip(s))

\* round(x) of a finite float: to the nearest integer, a half to the even one
PyRound(x) ==
    LET first == IF x.fr = <<>> THEN 0 ELSE DigitVal(x.fr[1])
        restZero == \A k \in 2..Len(x.fr) : x.fr[k] = "0"
        m == IF first > 5 \/ (first = 5 /\ ~restZero) THEN x.ip + 1
             ELSE IF first = 5 THEN (IF x.ip % 2 = 0 THEN x.ip ELSE x.ip + 1)
             ELSE x.ip
    IN  IF x.neg THEN 0 - m ELSE m

\* int(round(float(s))): [exc |-> "" | "ValueError" | "OverflowError", v]
IntRoundFloat(s) ==
    LET Rounded(x) ==
            CASE x.kind = "fin" -> [exc |-> "", v |-> PyRound(x)]
              [] x.kind = "inf" -> [exc |-> "OverflowError", v |-> 0]
              [] OTHER -> [exc |-> "ValueError", v |-> 0]
    IN  Rounded(PyFloat(s))

-----------------------------------------------------------------------------
(* DataFrames: column labels, row labels (the index) and the rows *)

NoDf == [loaded |-> FALSE, cols |-> <<>>, index |-> <<>>, rows |-> <<>>]

\* range(n) as a sequence
Range(n) == [i \in 1..n |-> i - 1]

\* pd.read_excel(..., header=None): integer labels on both axes; an empty
\* sheet gives a frame of shape (0, 0)
ReadExcel(rows) ==
    [loaded |-> TRUE,
     cols |-> IF rows = <<>> THEN <<>> ELSE Range(Len(rows[1])),
     index |-> Range(Len(rows)),
     rows |-> rows]

\* df.shape[1]
NCols(d) == Len(d.cols)

RECURSIVE SelectIdx(_, _, _)
\* the positions i >= from of rows for which mask[i] holds, ascending
SelectIdx(mask, from, n) ==
    IF from > n THEN <<>>
    ELSE (IF mask[from] THEN <<from>> ELSE <<>>) \o SelectIdx(mask, from + 1, n)

\* df[mask]: the rows where the mask holds, with their labels
BoolIndex(d, mask) ==
    LET keepIdx == SelectIdx(mask, 1, Len(d.rows))
    IN  [d EXCEPT !.index = [j \in 1..Len(keepIdx) |-> d.index[keepIdx[j]]],
                  !.rows = [j \in 1..Len(keepIdx) |-> d.rows[keepIdx[j]]]]

\* df.reset_index(drop=True)
ResetIndex(d) == [d EXCEPT !.index = Range(Len(d.rows))]

\* series.notna() & (series != '') for the column at position c (0-based)
HasData(row, c) == ~IsNa(row[c + 1]) /\ NotEmptyStr(row[c + 1])

-----------------------------------------------------------------------------
(* ExcelProcessor.remove_empty_rows *)

mask_alternative_And(d, c1, c2) ==
    [i \in 1..Len(d.rows) |-> HasData(d.rows[i], c1) /\ HasData(d.rows[i], c2)]

mask_alternative(d, c1, c2) ==
    [i \in 1..Len(d.rows) |-> HasData(d.rows[i], c1) \/ HasData(d.rows[i], c2)]

remove_empty_rows_Emptied(d, c1, c2) ==
    IF ~d.loaded THEN [df |-> d, ret |-> "False"]
    ELSE IF c1 >= NCols(d) \/ c2 >= NCols(d)
    THEN [df |-> [d EXCEPT !.index = <<>>, !.rows = <<>>], ret |-> "False"]
    ELSE [df |-> ResetIndex(BoolIndex(d, mask_alternative(d, c1, c2))),
          ret |-> "True"]

\* the new df and the return value
remove_empty_rows(d, c1, c2) ==
    IF ~d.loaded THEN [df |-> d, ret |-> "False"]
    ELSE IF c1 >= NCols(d) \/ c2 >= NCols(d) THEN [df |-> d, ret |-> "False"]
    ELSE [df |-> ResetIndex(BoolIndex(d, mask_alternative(d, c1, c2))),
          ret |-> "True"]

-----------------------------------------------------------------------------
(* ExcelProcessor.process_duplicates_with_order_preservation *)

\* a == b of Python on cell values, as the set and dict lookups use it
PyEq(a, b) ==
    LET IsNum(v) == v.t \in {"int", "float", "bool"}
        Tenths(v) == IF v.t = "float" THEN v.n ELSE 10 * v.n
    IN  IF IsNum(a) /\ IsNum(b) THEN Tenths(a) = Tenths(b) ELSE a = b

ListMax_First(l) == l[1]

\* max() of a non-empty list of naturals
RECURSIVE ListMax(_)
ListMax(l) ==
    IF Len(l) = 1 THEN l[1]
    ELSE LET m == ListMax(Tail(l)) IN IF Head(l) > m THEN Head(l) ELSE m

\* str(v).replace(',', '.').replace(' ', '').strip()
clean_val(v) == Strip(ReplaceChar(ReplaceChar(PyStr(v), ",", <<".">>), " ", <<>>))

\* the parse of the first occurrence: a ValueError gives 0, any other
\* exception leaves the try block
initial_sum(v) ==
    LET Zero == [exc |-> "", v |-> 0]
        Caught(r) == IF r.exc = "ValueError" THEN Zero ELSE r
        Parse(c) == Caught(IF c # <<>> THEN IntRoundFloat(c) ELSE Zero)
    IN  IF IsNa(v) THEN Zero ELSE Parse(clean_val(v))

\* the parse of a duplicate: on a ValueError nothing is added
additional_value(v) ==
    LET Nothing == [exc |-> "", v |-> 0]
        Caught(r) == IF r.exc = "ValueError" THEN Nothing ELSE r
        Parse(c) == Caught(IF c # <<>> THEN IntRoundFloat(c) ELSE Nothing)
    IN  IF IsNa(v) THEN Nothing ELSE Parse(clean_val(v))

\* pd.isna(primary_key) or primary_key == '', the negation of the key mask
EmptyKey_NullOnly(v) == IsNa(v)
EmptyKey(v) == IsNa(v) \/ ~NotEmptyStr(v)

\* result_rows[primary_key]['sum_value'] += additional_value
AddToSum_Overwrite(rr, key, row, v) ==
    [i \in 1..Len(rr) |->
        IF PyEq(rr[i].key, key) THEN [rr[i] EXCEPT !.sum_value = v] ELSE rr[i]]
AddToSum_TakesRow(rr, key, row, v) ==
    [i \in 1..Len(rr) |->
        IF PyEq(rr[i].key, key)
        THEN [rr[i] EXCEPT !.sum_value = @ + v, !.data = row] ELSE rr[i]]
AddToSum(rr, key, row, v) ==
    [i \in 1..Len(rr) |->
        IF PyEq(rr[i].key, key) THEN [rr[i] EXCEPT !.sum_value = @ + v] ELSE rr[i]]

\* one iteration of the loop over df_work.iterrows(); w = [order, label, data]
ScanRow(acc, w, primary_key_col, sum_col) ==
    LET primary_key == w.data[primary_key_col + 1]
        cell == w.data[sum_col + 1]
        First(q) ==
            IF q.exc # "" THEN [acc EXCEPT !.exc = q.exc]
            ELSE [acc EXCEPT
                    !.result_rows = Append(@, [key |-> primary_key,
                                               order |-> w.order,
                                               label |-> w.label,
                                               data |-> w.data,
                                               sum_value |-> q.v]),
                    !.processed_keys = @ \cup {primary_key}]
        Duplicate(q) ==
            IF q.exc # "" THEN [acc EXCEPT !.exc = q.exc]
            ELSE [acc EXCEPT !.result_rows = AddToSum(@, primary_key, w.data, q.v)]
    IN  IF acc.exc # "" THEN acc
        ELSE IF EmptyKey(primary_key) THEN acc
        ELSE IF ~(\E k \in acc.processed_keys : PyEq(k, primary_key))
        THEN First(initial_sum(cell))
        ELSE Duplicate(additional_value(cell))

RECURSIVE ScanRows(_, _, _, _)
ScanRows(acc, work, primary_key_col, sum_col) ==
    IF work = <<>> THEN acc
    ELSE ScanRows(ScanRow(acc, Head(work), primary_key_col, sum_col),
                  Tail(work), primary_key_col, sum_col)

RECURSIVE InsertByOrder_Desc(_, _)
InsertByOrder_Desc(l, x) ==
    IF l = <<>> THEN <<x>>
    ELSE IF x.order > Head(l).order THEN <<x>> \o l
    ELSE <<Head(l)>> \o InsertByOrder_Desc(Tail(l), x)

RECURSIVE InsertByOrder(_, _)
InsertByOrder(l, x) ==
    IF l = <<>> THEN <<x>>
    ELSE IF x.order < Head(l).order THEN <<x>> \o l
    ELSE <<Head(l)>> \o InsertByOrder(Tail(l), x)

RECURSIVE sorted_results(_)
\* sorted(result_rows.items(), key=lambda x: x[1]['order']), a stable sort
sorted_results(rr) ==
    IF rr = <<>> THEN <<>>
    ELSE InsertByOrder(sorted_results(SubSeq(rr, 1, Len(rr) - 1)), rr[Len(rr)])

\* row_data.iloc[sum_col] = data['sum_value']
row_data(r, sum_col) == [r.data EXCEPT ![sum_col + 1] = Num(r.sum_value)]

\* [col for col in keep_cols if col < result_df.shape[1]]
RECURSIVE valid_keep_cols(_, _)
valid_keep_cols(keep_cols, n) ==
    IF keep_cols = <<>> THEN <<>>
    ELSE (IF Head(keep_cols) < n THEN <<Head(keep_cols)>> ELSE <<>>)
         \o valid_keep_cols(Tail(keep_cols), n)

\* result_df.iloc[:, valid_keep_cols]
Project(d, kc) ==
    [d EXCEPT !.cols = [j \in 1..Len(kc) |-> d.cols[kc[j] + 1]],
              !.rows = [i \in 1..Len(d.rows) |->
                           [j \in 1..Len(kc) |-> d.rows[i][kc[j] + 1]]]]

\* the new df and the return value
process_duplicates_with_order_preservation(d, primary_key_col, sum_col, keep_cols, remove_cols) ==
    LET Failed == [df |-> d, ret |-> "False"]
        Projected(result_df) ==
            [df |-> ResetIndex(Project(result_df,
                                       valid_keep_cols(keep_cols, NCols(result_df)))),
             ret |-> "True"]
        Sorted(sr) ==
            IF sr = <<>> THEN Failed
            ELSE Projected([loaded |-> TRUE,
                            cols |-> d.cols,
                            index |-> [i \in 1..Len(sr) |-> sr[i].label],
                            rows |-> [i \in 1..Len(sr) |-> row_data(sr[i], sum_col)]])
        Scanned(acc) ==
            IF acc.exc # "" THEN Failed ELSE Sorted(sorted_results(acc.result_rows))
        Work(df_work) ==
            IF df_work = <<>> THEN Failed
            ELSE Scanned(ScanRows([exc |-> "", result_rows |-> <<>>, processed_keys |-> {}],
                                  df_work, primary_key_col, sum_col))
        Masked(keepIdx) ==
            Work([j \in 1..Len(keepIdx) |->
                    [order |-> keepIdx[j] - 1,
                     label |-> d.index[keepIdx[j]],
                     data |-> d.rows[keepIdx[j]]]])
        primary_key_mask ==
            [i \in 1..Len(d.rows) |-> ~EmptyKey(d.rows[i][primary_key_col + 1])]
    IN  IF ~d.loaded THEN Failed
        ELSE IF ListMax(keep_cols \o <<primary_key_col, sum_col>>) >= NCols(d)
        THEN Failed
        ELSE Masked(SelectIdx(primary_key_mask, 1, Len(d.rows)))

-----------------------------------------------------------------------------
(* MaterialSorter.extract_thickness_from_material *)

Mm == <<"m", "m">>

\* not material_description: '', 0, 0.0, False and None are falsy, NaN is not
Falsy(v) ==
    \/ v.t = "str" /\ v.s = <<>>
    \/ v.t \in {"int", "float", "bool"} /\ v.n = 0

\* the fraction as written
TrimZeros_Keep(f) == f

\* a fraction without its trailing zeros
RECURSIVE TrimZeros(_)
TrimZeros(f) ==
    IF f # <<>> /\ f[Len(f)] = "0" THEN TrimZeros(SubSeq(f, 1, Len(f) - 1)) ELSE f

\* the match of -([0-9]+,[0-9]+)\s starting at position i, if there is one
DecimalAt(s, i) ==
    LET Match(a, c, b, e) ==
            [hit |-> /\ s[i] = "-" /\ a # <<>>
                     /\ c <= Len(s) /\ s[c] = "," /\ b # <<>>
                     /\ e <= Len(s) /\ IsSpace(s[e]),
             ip |-> a, fr |-> b]
        Fraction(a, c, b) == Match(a, c, b, c + 1 + Len(b))
        Comma(a, c) == Fraction(a, c, LeadDigits(SubSeq(s, c + 1, Len(s))))
        Whole(a) == Comma(a, i + 1 + Len(a))
    IN  Whole(LeadDigits(SubSeq(s, i + 1, Len(s))))

\* an integer match that takes the end of the text for whitespace
IntegerAt_OrAtEnd(s, i) ==
    LET Match(a, e) ==
            [hit |-> s[i] = "-" /\ a # <<>> /\ (e > Len(s) \/ IsSpace(s[e])),
             ip |-> a, fr |-> <<>>]
        Whole(a) == Match(a, i + 1 + Len(a))
    IN  Whole(LeadDigits(SubSeq(s, i + 1, Len(s))))

\* the match of -([0-9]+)\s starting at position i, if there is one
IntegerAt(s, i) ==
    LET Match(a, e) ==
            [hit |-> s[i] = "-" /\ a # <<>> /\ e <= Len(s) /\ IsSpace(s[e]),
             ip |-> a, fr |-> <<>>]
        Whole(a) == Match(a, i + 1 + Len(a))
    IN  Whole(LeadDigits(SubSeq(s, i + 1, Len(s))))

\* the decimal pattern never matching
match_decimal_Never(s) == [hit |-> FALSE, ip |-> <<>>, fr |-> <<>>]

\* re.search(pattern_decimal, s): the leftmost match
match_decimal(s) ==
    LET hits == [i \in 1..Len(s) |-> DecimalAt(s, i)]
        Leftmost(m) ==
            IF \E i \in 1..Len(s) : m[i].hit
            THEN m[CHOOSE i \in 1..Len(s) :
                       m[i].hit /\ \A h \in 1..(i - 1) : ~m[h].hit]
            ELSE [hit |-> FALSE, ip |-> <<>>, fr |-> <<>>]
    IN  Leftmost(hits)

\* re.search(pattern_integer, s): the leftmost match
match_integer(s) ==
    LET hits == [i \in 1..Len(s) |-> IntegerAt(s, i)]
        Leftmost(m) ==
            IF \E i \in 1..Len(s) : m[i].hit
            THEN m[CHOOSE i \in 1..Len(s) :
                       m[i].hit /\ \A h \in 1..(i - 1) : ~m[h].hit]
            ELSE [hit |-> FALSE, ip |-> <<>>, fr |-> <<>>]
    IN  Leftmost(hits)

\* the integer pattern consulted before the decimal one
extract_thickness_IntegerFirst(material_description) ==
    LET None == [found |-> FALSE, label |-> <<>>]
        Some(l) == [found |-> TRUE, label |-> l]
        Decimal(md) ==
            IF md.hit THEN Some(md.ip \o <<".">> \o md.fr \o Mm) ELSE None
        Searched(s, mi) ==
            IF mi.hit THEN Some(NatToStr(DigitsVal(mi.ip)) \o Mm)
            ELSE Decimal(match_decimal(s))
        Text(s) == Searched(s, match_integer(s))
    IN  IF Falsy(material_description) \/ IsNa(material_description) THEN None
        ELSE Text(PyStr(material_description))

\* [found, label]: the thickness label, or None
extract_thickness_from_material(material_description) ==
    LET None == [found |-> FALSE, label |-> <<>>]
        Some(l) == [found |-> TRUE, label |-> l]
        Decimal(md, whole, frac) ==
            IF whole = 1 /\ frac = <<>> THEN Some(<<"1">> \o Mm)
            ELSE IF whole = 1 /\ frac = <<"5">> THEN Some(<<"1", ".", "5">> \o Mm)
            ELSE IF whole = 2 /\ frac = <<>> THEN Some(<<"2">> \o Mm)
            ELSE IF whole = 3 /\ frac = <<>> THEN Some(<<"3">> \o Mm)
            ELSE Some(md.ip \o <<".">> \o md.fr \o Mm)
        Integer(mi) ==
            IF mi.hit THEN Some(NatToStr(DigitsVal(mi.ip)) \o Mm) ELSE None
        Searched(s, md) ==
            IF md.hit THEN Decimal(md, DigitsVal(md.ip), TrimZeros(md.fr))
            ELSE Integer(match_integer(s))
        Text(s) == Searched(s, match_decimal(s))
    IN  IF Falsy(material_description) \/ IsNa(material_description) THEN None
        ELSE Text(PyStr(material_description))

-----------------------------------------------------------------------------
(* MaterialSorter.sort_data_by_thickness *)

material_col_index == 1
quantity_col_index == 6

\* the quantity of one row as the classifier parses it:
\* [exc |-> "" | "OverflowError", v]; a ValueError or TypeError counts 0
qty_num(v) ==
    LET Zero == [exc |-> "", v |-> 0]
        Caught(r) == IF r.exc = "ValueError" THEN Zero ELSE r
        Parse(clean_qty) ==
            Caught(IF clean_qty # <<>> THEN IntRoundFloat(clean_qty) ELSE Zero)
        Tenths(a) ==
            [exc |-> "",
             v |-> PyRound([neg |-> v.n < 0, ip |-> a \div 10,
                            fr |-> <<DigitChar(a % 10)>>])]
    IN  IF IsNa(v) THEN Zero
        ELSE IF v.t = "str"
        THEN Parse(ReplaceChar(ReplaceChar(Strip(v.s), ",", <<".">>), " ", <<>>))
        ELSE CASE v.t \in {"int", "bool"} -> [exc |-> "", v |-> v.n]
               [] v.t = "float" -> Tenths(IF v.n < 0 THEN 0 - v.n ELSE v.n)
               [] v.t = "inf" -> [exc |-> "OverflowError", v |-> 0]
               [] OTHER -> Zero

\* the rows of the frame as iterrows() yields them: (idx, row)
IterRows(d) == [i \in 1..Len(d.rows) |-> [name |-> d.index[i], data |-> d.rows[i]]]

\* row.iloc[c] raises IndexError when the row is too short
ILocRaises(row, c) == c >= Len(row.data)

RECURSIVE SumRows(_)
\* a quantity loop over rows: [exc, v]
SumRows(rows) ==
    LET Add(r, q) == IF q.exc # "" THEN q ELSE [exc |-> "", v |-> r.v + q.v]
        Step(r, row) ==
            IF r.exc # "" THEN r
            ELSE IF ILocRaises(row, quantity_col_index)
            THEN [exc |-> "IndexError", v |-> 0]
            ELSE Add(r, qty_num(row.data[quantity_col_index + 1]))
    IN  IF rows = <<>> THEN [exc |-> "", v |-> 0]
        ELSE Step(SumRows(SubSeq(rows, 1, Len(rows) - 1)), rows[Len(rows)])

\* if idx == 0: continue
SkipFirst_None(rows) == rows
SkipFirst(rows) ==
    LET Selected(keepIdx) == [j \in 1..Len(keepIdx) |-> rows[keepIdx[j]]]
    IN  Selected(SelectIdx([i \in 1..Len(rows) |-> rows[i].name # 0], 1, Len(rows)))

\* thickness_groups[thickness].append(row), opening the group when it is new
AppendToGroup_Replace(groups, thickness, row) ==
    IF \E g \in 1..Len(groups) : groups[g].thickness = thickness
    THEN [g \in 1..Len(groups) |->
             IF groups[g].thickness = thickness
             THEN [groups[g] EXCEPT !.rows = <<row>>] ELSE groups[g]]
    ELSE Append(groups, [thickness |-> thickness, rows |-> <<row>>])
AppendToGroup(groups, thickness, row) ==
    IF \E g \in 1..Len(groups) : groups[g].thickness = thickness
    THEN [g \in 1..Len(groups) |->
             IF groups[g].thickness = thickness
             THEN [groups[g] EXCEPT !.rows = Append(@, row)] ELSE groups[g]]
    ELSE Append(groups, [thickness |-> thickness, rows |-> <<row>>])

RECURSIVE GroupRows(_)
\* the grouping loop: [exc, groups, unmatched]
GroupRows(rows) ==
    LET Place(r, row, thickness) ==
            IF thickness.found /\ thickness.label # <<>>
            THEN [r EXCEPT !.groups = AppendToGroup(@, thickness.label, row)]
            ELSE [r EXCEPT !.unmatched = Append(@, row)]
        Step(r, row) ==
            IF r.exc # "" THEN r
            ELSE IF ILocRaises(row, material_col_index)
            THEN [r EXCEPT !.exc = "IndexError"]
            ELSE Place(r, row,
                       extract_thickness_from_material(row.data[material_col_index + 1]))
    IN  IF rows = <<>> THEN [exc |-> "", groups |-> <<>>, unmatched |-> <<>>]
        ELSE Step(GroupRows(SubSeq(rows, 1, Len(rows) - 1)), rows[Len(rows)])

RECURSIVE GroupedQuantity(_)
\* the per-group quantity loops, added up: [exc, v]
GroupedQuantity(groups) ==
    LET Add(r, q) ==
            IF r.exc # "" THEN r
            ELSE IF q.exc # "" THEN q
            ELSE [exc |-> "", v |-> r.v + q.v]
    IN  IF groups = <<>> THEN [exc |-> "", v |-> 0]
        ELSE Add(GroupedQuantity(SubSeq(groups, 1, Len(groups) - 1)),
                 SumRows(groups[Len(groups)].rows))

\* total_grouped_quantity += thickness_quantity, += unmatched_quantity
TotalGrouped_GroupsOnly(groupsQty, unmatchedQty) == groupsQty
TotalGrouped(groupsQty, unmatchedQty) == groupsQty + unmatchedQty

\* [ret, thickness_groups, unmatched_rows, total_input_quantity,
\*  total_grouped_quantity]; on False no attribute is set
sort_data_by_thickness(d) ==
    LET Failed == [ret |-> "False", thickness_groups |-> <<>>, unmatched_rows |-> <<>>,
                   total_input_quantity |-> 0, total_grouped_quantity |-> 0]
        Totalled(tin, gr, tg, tu) ==
            IF tin.exc # "" \/ gr.exc # "" \/ tg.exc # "" \/ tu.exc # "" THEN Failed
            ELSE [ret |-> "True",
                  thickness_groups |-> gr.groups,
                  unmatched_rows |-> gr.unmatched,
                  total_input_quantity |-> tin.v,
                  total_grouped_quantity |-> TotalGrouped(tg.v, tu.v)]
        Grouped(tin, gr) ==
            Totalled(tin, gr, GroupedQuantity(gr.groups), SumRows(gr.unmatched))
        Rows(data) == Grouped(SumRows(data), GroupRows(data))
    IN  IF ~d.loaded THEN Failed ELSE Rows(SkipFirst(IterRows(d)))

-----------------------------------------------------------------------------
(* MaterialSorter._populate_worksheet.  A character outside ASCII is held   *)
(* as "u" followed by its code point: "u0414" is the Cyrillic capital De.   *)

headers ==
    << <<"O", "r", "d", "e", "r", "I", "D">>,
       <<"P", "a", "r", "t", "N", "a", "m", "e">>,
       <<"Q", "u", "a", "n", "t", "i", "t", "y", "O", "r", "d", "e", "r",
         "e", "d">>,
       <<"Q", "u", "a", "n", "t", "i", "t", "y", "N", "e", "s", "t", "e",
         "d">>,
       <<"Q", "u", "a", "n", "t", "i", "t", "y", "C", "o", "m", "p", "l",
         "e", "t", "e", "d">>,
       <<"E", "x", "t", "r", "a", "A", "l", "l", "o", "w", "e", "d">>,
       <<"M", "a", "c", "h", "i", "n", "e">>,
       <<"A", "s", "s", "e", "m", "b", "l", "y", "I", "D">>,
       <<"D", "u", "e", "D", "a", "t", "e">>,
       <<"D", "a", "t", "e", "W", "i", "n", "d", "o", "w">>,
       <<"P", "r", "i", "o", "r", "i", "t", "y">>,
       <<"F", "o", "r", "c", "e", "d", "P", "r", "i", "o", "r", "i", "t",
         "y">>,
       <<"N", "e", "x", "t", "P", "h", "a", "s", "e">>,
       <<"S", "t", "a", "t", "u", "s">>,
       <<"M", "a", "t", "e", "r", "i", "a", "l">>,
       <<"T", "h", "i", "c", "k", "n", "e", "s", "s">>,
       <<"A", "u", "t", "o", "T", "o", "o", "l", "i", "n", "g">>,
       <<"S", "c", "r", "i", "p", "t", "T", "o", "o", "l", "i", "n", "g">>,
       <<"S", "c", "r", "i", "p", "t", "N", "a", "m", "e">>,
       <<"M", "a", "n", "u", "a", "l", "N", "e", "s", "t", "i", "n", "g">>,
       <<"D", "r", "a", "w", "i", "n", "g">>,
       <<"T", "u", "r", "r", "e", "t">>,
       <<"P", "r", "o", "d", "u", "c", "t", "i", "o", "n", "L", "a", "b",
         "e", "l">>,
       <<"R", "e", "v", "i", "s", "i", "o", "n">>,
       <<"B", "e", "n", "d", "i", "n", "g", "M", "o", "d", "e">>,
       <<"B", "e", "n", "d", "i", "n", "g", "P", "a", "r", "a", "m", "e",
         "t", "e", "r", "s">>,
       <<"P", "a", "r", "a", "m", "e", "t", "e", "r", "s">> >>

\* the first cells that mark a header row
Sentinels ==
    { <<"n", "a", "n">>,
      <<"u041f", "u043e", "u0440", "u044f", "u0434", "u043a", "u043e",
        "u0432", "u044b", "u0439", " ", "u043d", "u043e", "u043c", "u0435",
        "u0440">>,
      <<"O", "r", "d", "e", "r", "I", "D">>,
      <<"P", "a", "r", "t", "N", "a", "m", "e">>,
      <<"u041f", "u0440", "u0438", "u043e", "u0440", "u0438", "u0442",
        "u0435", "u0442">> }

\* today_date of the run, month/day/year
Today == <<"7", "/", "2", "4", "/", "2", "0", "2", "5">>

base_path ==
    <<"\\", "\\", "s", "r", "v", "d", "a", "t", "a", "\\", "F", "M", "S",
      "\\", "n", "c", "e", "x", "p", "r", "e", "s", "s", "\\", "E", "5", "_",
      "T", "O", "P", "A", "Z", "\\", "P", "A", "R", "T", "D", "I", "R">>

machine_name_Always(sheet_name) == <<"A", "5", "-", "2", "5">>
machine_name(sheet_name) ==
    IF sheet_name \in {<<"1", "m", "m">>, <<"2", "m", "m">>, <<"3", "m", "m">>}
    THEN <<"A", "5", "-", "2", "5">>
    ELSE IF sheet_name = <<"1", ".", "5", "m", "m">>
    THEN <<"E", "5", "_", "T", "O", "P", "A", "Z">>
    ELSE <<>>

thickness_suffix(sheet_name) ==
    CASE sheet_name = <<"1", "m", "m">> -> <<"_", "1", "m", "m", "Z", "n">>
      [] sheet_name = <<"1", ".", "5", "m", "m">> -> <<"_", "1", ".", "5", "m", "m", "Z", "n">>
      [] sheet_name = <<"2", "m", "m">> -> <<"_", "2", "m", "m", "Z", "n">>
      [] sheet_name = <<"3", "m", "m">> -> <<"_", "3", "m", "m", "Z", "n">>
      [] OTHER -> <<>>

StartsWith(s, a) == Len(a) <= Len(s) /\ SubSeq(s, 1, Len(a)) = a
EndsWith(s, a) == Len(a) <= Len(s) /\ SubSeq(s, Len(s) - Len(a) + 1, Len(s)) = a

\* s.replace(a, b) for a non-empty text a
RECURSIVE ReplaceText(_, _, _)
ReplaceText(s, a, b) ==
    IF s = <<>> THEN <<>>
    ELSE IF StartsWith(s, a)
    THEN b \o ReplaceText(SubSeq(s, Len(a) + 1, Len(s)), a, b)
    ELSE <<Head(s)>> \o ReplaceText(Tail(s), a, b)

\* pd.notna(v) and v
Truthy(v) == ~IsNa(v) /\ ~Falsy(v)

\* row_series.iloc[k] if len(row_series) > k else default
iloc_or(row_series, k, default) ==
    IF Len(row_series.data) > k THEN row_series.data[k + 1] ELSE default

transformed_designation(original_i) ==
    LET Cut(t) == IF EndsWith(t, <<" ", "D", "X", "F">>) THEN SubSeq(t, 1, Len(t) - 4) ELSE t
    IN  IF Truthy(original_i)
        THEN Cut(ReplaceText(PyStr(original_i),
                             <<"u0414", "u0421", "u041c", "u041a", ".">>,
                             <<"D", "S", "M", "K", ".">>))
        ELSE <<>>

\* re.search(r'(\d+)', s).group(1), or <<>> when s holds no digit
RECURSIVE FirstDigits(_)
FirstDigits(s) ==
    IF s = <<>> THEN <<>>
    ELSE IF Head(s) \in Digits THEN LeadDigits(s)
    ELSE FirstDigits(Tail(s))

version_Default(original_h) == <<"_", "V", "0">>
version(original_h) ==
    LET Found(version_digit) ==
            IF version_digit # <<>> THEN <<"_", "V">> \o version_digit
            ELSE <<"_", "V", "0">>
    IN  IF Truthy(original_h) THEN Found(FirstDigits(Strip(PyStr(original_h))))
        ELSE <<"_", "V", "0">>

quantity_int_NumbersOnly(original_j) ==
    IF original_j.t = "str" THEN [exc |-> "", v |-> 0] ELSE qty_num(original_j)

\* the quantity of a row, parsed as in sort_data_by_thickness
quantity_int(original_j) == qty_num(original_j)

\* f"{x:.6f}" of a float with at most six digits after the point
Format6(x) ==
    NatToStr(x.ip) \o <<".">> \o x.fr \o [k \in 1..(6 - Len(x.fr)) |-> "0"]

\* the Thickness field: [exc, v]
thickness_field(sheet_name) ==
    LET Formatted(x) ==
            IF x.kind = "fin" THEN [exc |-> "", v |-> Format6(x)]
            ELSE [exc |-> "ValueError", v |-> <<>>]
        Number(t) ==
            IF ReplaceChar(t, ".", <<>>) # <<>> /\ AllDigits(ReplaceChar(t, ".", <<>>))
            THEN Formatted(PyFloat(t))
            ELSE [exc |-> "", v |-> <<"0", ".", "0", "0", "0", "0", "0", "0">>]
    IN  Number(ReplaceText(sheet_name, Mm, <<>>))

new_row_data(oid, full_part_name, quantity, machine, priority, thickness, drawing_path) ==
    << Txt(oid), Txt(full_part_name), Num(quantity), Num(0), Num(0), Num(0),
       Txt(machine), Txt(<<>>), Txt(Today), Num(0), priority, Num(0), Num(0),
       Num(0), Txt(<<"D", "C", "0", "1">>), Txt(thickness), Num(0), Num(0),
       Txt(<<>>), Num(0), Txt(drawing_path), Txt(<<>>), Txt(<<>>), Txt(<<>>),
       Num(0 - 1), Txt(<<>>), Txt(<<>>) >>

\* isinstance(first_value, str) and first_value in [...]
IsSentinel(first_value) == first_value.t = "str" /\ first_value.s \in Sentinels

\* the sheet rows with empty rows added up to row n
PadTo(rows, n) == rows \o [k \in 1..(n - Len(rows)) |-> <<>>]

\* one iteration of the loop over enumerate(rows_data, start=2);
\* acc = [exc, rows, full_part_name], full_part_name = [bound, v]
populate_row(acc, row_series, row_idx, sheet_name, oid) ==
    LET original_g == iloc_or(row_series, 3, Txt(<<>>))
        original_h == iloc_or(row_series, 4, Txt(<<>>))
        original_i == iloc_or(row_series, 5, Txt(<<>>))
        original_j == iloc_or(row_series, 6, Num(0))
        Write(fpn, drawing_path, q, th) ==
            IF q.exc # "" THEN [acc EXCEPT !.exc = q.exc]
            ELSE IF ~fpn.bound THEN [acc EXCEPT !.exc = "UnboundLocalError"]
            ELSE IF th.exc # "" THEN [acc EXCEPT !.exc = th.exc]
            ELSE [acc EXCEPT
                    !.full_part_name = fpn,
                    !.rows = PadTo(@, row_idx - 1)
                             \o <<new_row_data(oid, fpn.v, q.v, machine_name(sheet_name),
                                               IF IsNa(original_g) THEN Txt(<<>>)
                                               ELSE original_g,
                                               th.v, drawing_path)>>]
        Named(name) ==
            Write([bound |-> TRUE, v |-> name], base_path \o <<"\\">> \o name,
                  quantity_int(original_j), thickness_field(sheet_name))
    IN  IF acc.exc # "" THEN acc
        ELSE IF IsSentinel(iloc_or(row_series, 0, Txt(<<>>))) THEN acc
        ELSE IF Truthy(original_i)
        THEN Named(Strip(transformed_designation(original_i))
                   \o version(original_h) \o thickness_suffix(sheet_name))
        ELSE Write(acc.full_part_name, <<>>,
                   quantity_int(original_j), thickness_field(sheet_name))

RECURSIVE populate_rows(_, _, _, _, _)
populate_rows(acc, rows_data, k, sheet_name, oid) ==
    IF k > Len(rows_data) THEN acc
    ELSE populate_rows(populate_row(acc, rows_data[k], k + 1, sheet_name, oid),
                       rows_data, k + 1, sheet_name, oid)

\* [exc, rows]: the rows of the sheet, an empty row where nothing was written
_populate_worksheet(sheet_name, rows_data, oid) ==
    populate_rows([exc |-> "",
                   rows |-> <<[j \in 1..Len(headers) |-> Txt(headers[j])]>>,
                   full_part_name |-> [bound |-> FALSE, v |-> <<>>]],
                  rows_data, 1, sheet_name, oid)

-----------------------------------------------------------------------------
(* create_sorted_workbook_auto (src/excel_automation_gui.py) *)

thickness_order == <<<<"1", "m", "m">>, <<"1", ".", "5", "m", "m">>, <<"2", "m", "m">>, <<"3", "m", "m">>>>

\* the first cells that keep an unmatched row out of its sheet
UnmatchedSentinels ==
    { <<"u2116">>,
      <<"u041f", "u043e", "u0440", "u044f", "u0434", "u043a", "u043e",
        "u0432", "u044b", "u0439", " ", "u043d", "u043e", "u043c", "u0435",
        "u0440">>,
      <<"O", "r", "d", "e", "r", "I", "D">>,
      <<"P", "a", "r", "t", "N", "a", "m", "e">>,
      <<"u041f", "u0440", "u0438", "u043e", "u0440", "u0438", "u0442",
        "u0435", "u0442">>,
      <<"n", "a", "n">> }

\* the title of the sheet of unmatched rows
UnmatchedTitle ==
    <<"u041d", "u0435", "u043e", "u043f", "u0440", "u0435", "u0434", "u0435",
      "u043b", "u0435", "u043d", "u043d", "u044b", "u0435">>

\* the groups in the order their sheets are created
ordered_groups(groups) ==
    LET Known(idx) ==
            [j \in 1..Len(idx) |->
                groups[CHOOSE g \in 1..Len(groups) :
                           groups[g].thickness = thickness_order[idx[j]]]]
        Other(idx) == [j \in 1..Len(idx) |-> groups[idx[j]]]
        InOrder(t) == \E k \in 1..Len(thickness_order) : thickness_order[k] = t
    IN  Known(SelectIdx([k \in 1..Len(thickness_order) |->
                            \E g \in 1..Len(groups) :
                                groups[g].thickness = thickness_order[k]],
                        1, Len(thickness_order)))
        \o Other(SelectIdx([g \in 1..Len(groups) |-> ~InOrder(groups[g].thickness)],
                           1, Len(groups)))

real_unmatched(unmatched) ==
    LET Real(idx) == [j \in 1..Len(idx) |-> unmatched[idx[j]]]
        IsHeader(first_value) ==
            first_value.t = "str" /\ first_value.s \in UnmatchedSentinels
    IN  Real(SelectIdx([k \in 1..Len(unmatched) |->
                           ~IsHeader(iloc_or(unmatched[k], 0, Txt(<<>>)))],
                       1, Len(unmatched)))

\* [ret, sheets]; a sheet is [title, rows].  Nothing is saved when a sheet
\* raises, and wb.save raises on a workbook without sheets
create_sorted_workbook_auto(is_sorted, groups, unmatched, oid) ==
    LET Failed == [ret |-> "False", sheets |-> <<>>]
        Saved(filled) ==
            IF \E k \in 1..Len(filled) : filled[k].exc # "" THEN Failed
            ELSE IF filled = <<>> THEN Failed
            ELSE [ret |-> "True",
                  sheets |-> [k \in 1..Len(filled) |->
                                 [title |-> filled[k].title, rows |-> filled[k].rows]]]
        Sheet(title, rows_data) ==
            [title |-> title] @@ _populate_worksheet(title, rows_data, oid)
        Sheets(og, ru) ==
            Saved([k \in 1..Len(og) |-> Sheet(og[k].thickness, og[k].rows)]
                  \o (IF ru # <<>> THEN <<Sheet(UnmatchedTitle, ru)>> ELSE <<>>))
    IN  IF ~is_sorted THEN Failed
        ELSE Sheets(ordered_groups(groups), real_unmatched(unmatched))

-----------------------------------------------------------------------------
(* Input workbooks.  Columns A..J of a sheet: A the serial number, D the     *)
(* material description, E a name, G the priority, H the revision, I the    *)
(* designation (the key), J the quantity; B, C and F are not used.          *)

K1 == <<"K", "1">>
K2 == <<"K", "2">>
Desc10 == <<"-", "1", ",", "0", " ">>

SheetRow(i, d, e, k, q) ==
    <<Num(i), Null, Null, d, e, Null, Txt(<<"P">>), Num(1), k, q>>

\* sheets of n rows whose columns D, E, I, J are drawn from the given sets;
\* column A numbers the rows
Sheets(n, Ds, Es, Ks, Qs) ==
    { [i \in 1..n |-> SheetRow(i, f[i][1], f[i][2], f[i][3], f[i][4])] :
        f \in [1..n -> Ds \X Es \X Ks \X Qs] }

Keys == {Null, Txt(<<>>), Txt(K1), Txt(K2)}
Quantities == {Null, Num(5), Txt(<<"2", ",", "5">>), Txt(<<"x">>)}

DedupSheets(n) == Sheets(n, {Txt(Desc10)}, {Txt(<<"S">>)}, Keys, Quantities)

DefaultArgs ==
    [c1 |-> 3, c2 |-> 4, primary_key_col |-> 8, sum_col |-> 9,
     keep_cols |-> <<0, 3, 4, 6, 7, 8, 9>>, remove_cols |-> <<1, 2, 5>>]

DedupArgs ==
    { DefaultArgs,
      [DefaultArgs EXCEPT !.sum_col = 10] }

-----------------------------------------------------------------------------
(* State machine *)

SorterInit ==
    /\ saved = <<>>
    /\ sdf = NoDf
    /\ sorted = FALSE
    /\ thickness_groups = <<>>
    /\ unmatched_rows = <<>>
    /\ total_input_quantity = 0
    /\ total_grouped_quantity = 0

NoBook == [name |-> <<>>, sheets |-> <<>>]

\* no order number entered and no clock read, no order ID formed, no
\* workbook by thickness, no text file
BookInit ==
    /\ order_number = <<>>
    /\ current_year = 0
    /\ order_id = <<>>
    /\ workbook = NoBook
    /\ txt_files = <<>>

NoPath == [dir |-> "", name |-> <<>>]

\* no file of the working folder is looked at
DiskInit ==
    /\ input_file = NoPath
    /\ has_workbook = FALSE
    /\ output_file = NoPath
    /\ disk = {}
    /\ attempts = <<>>
    /\ converter_workbook = NoBook

\* ExcelProcessor(input_file)
ProcInit ==
    /\ df = NoDf
    /\ op = "init"
    /\ args = DefaultArgs
    /\ ret = "none"
    /\ pre = NoDf

Init ==
    /\ \E n \in 0..MaxRows : xls \in DedupSheets(n)
    /\ ProcInit
    /\ DiskInit
    /\ BookInit
    /\ SorterInit

\* ExcelProcessor.load_data
LoadData ==
    /\ op = "init"
    /\ df' = ReadExcel(xls)
    /\ op' = "load_data"
    /\ ret' = "True"
    /\ pre' = df
    /\ UNCHANGED <<xls, args, saved>>
    /\ UNCHANGED sortVars
    /\ UNCHANGED bookVars
    /\ UNCHANGED diskVars

ProcessDuplicates(a) ==
    LET Returned(r) ==
            /\ df' = r.df
            /\ ret' = r.ret
    IN  /\ Returned(process_duplicates_with_order_preservation(
                        df, a.primary_key_col, a.sum_col, a.keep_cols, a.remove_cols))
        /\ op' = "process_duplicates"
        /\ args' = a
        /\ pre' = df
        /\ UNCHANGED <<xls, saved>>
        /\ UNCHANGED sortVars
        /\ UNCHANGED bookVars
        /\ UNCHANGED diskVars

Dedup == \E a \in DedupArgs : ProcessDuplicates(a)

Next == LoadData \/ Dedup

Spec == Init /\ [][Next]_vars

\* the projection, on sheets with keys and quantities only
ProjectSheets(n) == Sheets(n, {Txt(Desc10)}, {Txt(<<"S">>)}, {Txt(K1), Txt(K2)}, {Num(5)})

ProjectArgs ==
    { DefaultArgs,
      [DefaultArgs EXCEPT !.keep_cols = <<9, 8, 0>>],
      [DefaultArgs EXCEPT !.keep_cols = <<0, 1, 8, 9>>, !.remove_cols = <<1, 2>>],
      [DefaultArgs EXCEPT !.keep_cols = <<8, 9, 8>>, !.remove_cols = <<>>],
      [DefaultArgs EXCEPT !.keep_cols = <<0, 8, 12, 9>>] }

InitProject ==
    /\ \E n \in 0..MaxRows : xls \in ProjectSheets(n)
    /\ ProcInit
    /\ DiskInit
    /\ BookInit
    /\ SorterInit

DedupProject == \E a \in ProjectArgs : ProcessDuplicates(a)

NextProject == LoadData \/ DedupProject

SpecProject == InitProject /\ [][NextProject]_vars

\* the row filter, on sheets whose columns D and E vary
FilterSheets(n) ==
    Sheets(n, {Null, Txt(<<>>), Txt(Desc10)}, {Null, Txt(<<>>), Txt(<<"S">>)},
           {Txt(K1)}, {Num(5)})

FilterArgs ==
    { DefaultArgs,
      [DefaultArgs EXCEPT !.c2 = 3],
      [DefaultArgs EXCEPT !.c1 = 10] }

InitFilter ==
    /\ \E n \in 0..MaxRows : xls \in FilterSheets(n)
    /\ ProcInit
    /\ DiskInit
    /\ BookInit
    /\ SorterInit

RemoveEmptyRows(a) ==
    LET Returned(r) ==
            /\ df' = r.df
            /\ ret' = r.ret
    IN  /\ Returned(remove_empty_rows(df, a.c1, a.c2))
        /\ op' = "remove_empty_rows"
        /\ args' = a
        /\ pre' = df
        /\ UNCHANGED <<xls, saved>>
        /\ UNCHANGED sortVars
        /\ UNCHANGED bookVars
        /\ UNCHANGED diskVars

Filter == \E a \in FilterArgs : RemoveEmptyRows(a)

NextFilter == LoadData \/ Filter

SpecFilter == InitFilter /\ [][NextFilter]_vars

\* the filter and the deduplication on sheets whose rows may be empty,
\* without a key or with an infinite quantity
FailSheets(n) ==
    Sheets(n, {Null, Txt(Desc10)}, {Null}, {Null, Txt(K1)}, {Num(5), Inf})

InitFail ==
    /\ \E n \in 0..MaxRows : xls \in FailSheets(n)
    /\ ProcInit
    /\ DiskInit
    /\ BookInit
    /\ SorterInit

NextFail == LoadData \/ Filter \/ Dedup

SpecFail == InitFail /\ [][NextFail]_vars

-----------------------------------------------------------------------------
(* ExcelProcessor.save_data_with_formatting: the rows written to the        *)
(* processed file, as pd.read_excel(header=None) returns them afterwards.  *)
(* After a deduplication the last column holds a number in every row, so   *)
(* the reader trims no trailing row or column.                              *)

\* int(s) of a text: [exc |-> "" | "ValueError", v]
PyInt(s) ==
    LET Signed(b, u) ==
            IF u # <<>> /\ AllDigits(u)
            THEN [exc |-> "", v |-> IF Head(b) = "-" THEN 0 - DigitsVal(u) ELSE DigitsVal(u)]
            ELSE [exc |-> "ValueError", v |-> 0]
        Stripped(b) == Signed(b, DropSign(b))
    IN  Stripped(Strip(s))

\* the value _save_with_openpyxl_formatting puts in the cell at (row_idx,
\* col_idx), 1-based: [exc |-> "" | "OverflowError", v]
cell_value(value, row_idx, col_idx) ==
    LET Same == [exc |-> "", v |-> value]
        Rounded(f) ==
            IF f.exc = "" THEN [exc |-> "", v |-> Num(f.v)]
            ELSE IF f.exc = "ValueError" THEN Same
            ELSE [exc |-> f.exc, v |-> value]
        Whole(i, clean_value) ==
            IF i.exc = "" THEN [exc |-> "", v |-> Num(i.v)]
            ELSE Rounded(IntRoundFloat(clean_value))
        Text(clean_value) ==
            IF clean_value # <<>>
               /\ clean_value \notin {<<"-">>, <<"N", "o", "n", "e">>, <<"n", "a", "n">>}
            THEN Whole(PyInt(clean_value), clean_value)
            ELSE Same
        Number(q) ==
            IF q.exc = "" THEN [exc |-> "", v |-> Num(q.v)]
            ELSE [exc |-> q.exc, v |-> value]
    IN  IF IsNa(value) THEN [exc |-> "", v |-> Null]
        ELSE IF col_idx = 7 /\ row_idx > 1
        THEN IF value.t = "str"
             THEN Text(ReplaceChar(ReplaceChar(Strip(value.s), ",", <<".">>), " ", <<>>))
             ELSE IF value.t \in {"int", "float", "bool", "inf"}
             THEN Number(qty_num(value))
             ELSE Same
        ELSE Same

\* a cell of the written file as read_excel returns it: an empty text is NaN
AsRead(v) == IF v.t = "str" /\ v.s = <<>> THEN Null ELSE v

\* the rows the file holds after the save; formatted: the workbook was
\* loaded, so _save_with_openpyxl_formatting writes it, and save_data_simple
\* (to_excel) does when that raises or when no workbook was loaded
written_rows(d, formatted) ==
    LET Plain == [i \in 1..Len(d.rows) |->
                     [j \in 1..Len(d.rows[i]) |-> AsRead(d.rows[i][j])]]
        Written(conv) ==
            IF \E i \in 1..Len(conv) : \E j \in 1..Len(conv[i]) : conv[i][j].exc # ""
            THEN Plain
            ELSE [i \in 1..Len(conv) |-> [j \in 1..Len(conv[i]) |-> AsRead(conv[i][j].v)]]
    IN  IF formatted
        THEN Written([i \in 1..Len(d.rows) |->
                         [j \in 1..Len(d.rows[i]) |-> cell_value(d.rows[i][j], i, j)]])
        ELSE Plain

-----------------------------------------------------------------------------
(* The classifier alone, on processed files of 7 columns: A the serial      *)
(* number, B the material description, F the designation, G the quantity.  *)

OrderID == <<"O", "r", "d", "e", "r", "I", "D">>

ProcessedRow(i, d, q) ==
    <<Num(i), d, Txt(<<"S">>), Txt(<<"P">>), Num(1), Txt(K1), q>>

HeaderRow ==
    <<Txt(OrderID), Txt(<<"M">>), Txt(<<"S">>), Txt(<<"P">>), Txt(<<"R">>),
      Txt(<<"D">>), Txt(<<"Q">>)>>

Descriptions ==
    {Null, Txt(Desc10), Txt(<<"A", "-", "2", " ", "B">>), Txt(<<"-", "0", ",", "8", " ">>)}

SortQuantities == {Null, Num(5), Txt(<<"2", ",", "5">>), Inf}

\* files of n + 1 rows: a first row, then n data rows
ProcessedFiles(n) ==
    { <<h>> \o [i \in 1..n |-> ProcessedRow(i + 1, f[i][1], f[i][2])] :
        h \in {HeaderRow, ProcessedRow(1, Txt(Desc10), Num(5))},
        f \in [1..n -> Descriptions \X SortQuantities] }

InitSort ==
    /\ xls = <<>>
    /\ ProcInit
    /\ DiskInit
    /\ BookInit
    /\ \/ saved = <<>>
       \/ \E n \in 0..(MaxRows - 1) : saved \in ProcessedFiles(n)
    /\ sdf = NoDf
    /\ sorted = FALSE
    /\ thickness_groups = <<>>
    /\ unmatched_rows = <<>>
    /\ total_input_quantity = 0
    /\ total_grouped_quantity = 0

\* MaterialSorter.load_data
SorterLoadData ==
    /\ sdf' = ReadExcel(saved)
    /\ op' = "sorter_load_data"
    /\ ret' = "True"
    /\ UNCHANGED <<xls, df, args, pre, saved, sorted, thickness_groups,
                   unmatched_rows, total_input_quantity, total_grouped_quantity>>
    /\ UNCHANGED bookVars
    /\ UNCHANGED diskVars

SortDataByThickness ==
    LET Returned(r) ==
            /\ ret' = r.ret
            /\ IF r.ret = "True"
               THEN /\ sorted' = TRUE
                    /\ thickness_groups' = r.thickness_groups
                    /\ unmatched_rows' = r.unmatched_rows
                    /\ total_input_quantity' = r.total_input_quantity
                    /\ total_grouped_quantity' = r.total_grouped_quantity
               ELSE UNCHANGED <<sorted, thickness_groups, unmatched_rows,
                                total_input_quantity, total_grouped_quantity>>
    IN  /\ Returned(sort_data_by_thickness(sdf))
        /\ op' = "sort_data_by_thickness"
        /\ UNCHANGED <<xls, df, args, pre, saved, sdf>>
        /\ UNCHANGED bookVars
        /\ UNCHANGED diskVars

NextSort == SorterLoadData \/ SortDataByThickness

SpecSort == InitSort /\ [][NextSort]_vars

\* The classifier on files of a header row and one data row whose material
\* description is put together from at most MaxPieces pieces of text
Pieces ==
    { <<"-", "1">>, <<"-", "2">>, <<"-", "3">>, <<"-", "0", "4">>,
      <<"-", "0", ",", "8">>, <<",", "0">>, <<",", "5", "0">>, <<" ">>, <<"A">> }

RECURSIVE Flatten(_)
Flatten(ps) == IF ps = <<>> THEN <<>> ELSE Head(ps) \o Flatten(Tail(ps))

Texts(n) == { Flatten(f) : f \in [1..n -> Pieces] }

ExtractQuantities == {Num(5), Txt(<<"2", ",", "5">>)}

ExtractFiles(n) ==
    { <<HeaderRow, ProcessedRow(2, Txt(t), q)>> : t \in Texts(n), q \in ExtractQuantities }

InitExtract ==
    /\ xls = <<>>
    /\ ProcInit
    /\ DiskInit
    /\ BookInit
    /\ \/ \E q \in ExtractQuantities : saved = <<HeaderRow, ProcessedRow(2, Null, q)>>
       \/ \E n \in 1..MaxPieces : saved \in ExtractFiles(n)
    /\ sdf = NoDf
    /\ sorted = FALSE
    /\ thickness_groups = <<>>
    /\ unmatched_rows = <<>>
    /\ total_input_quantity = 0
    /\ total_grouped_quantity = 0

SpecExtract == InitExtract /\ [][NextSort]_vars

-----------------------------------------------------------------------------
(* The workbook by thickness, on processed files whose first cell,          *)
(* description, revision and designation vary one family at a time.         *)

ByThickness ==
    <<"_", "b", "y", "_", "t", "h", "i", "c", "k", "n", "e", "s", "s", ".",
      "x", "l", "s", "x">>

\* the order IDs handed to the workbook
OrderIds == {<<"2", "5", "-", "0", "7", "2">>, <<"2", "6", "-", "0", "0", "5">>}

BookRow(a, d, h, i) == <<a, d, Txt(<<"S">>), Num(2), h, i, Num(5)>>

Desc15 == <<"-", "1", ",", "5", " ">>
Desc08 == <<"-", "0", ",", "8", " ">>
Desc20 == <<"-", "2", ",", "0", " ">>
Desc30 == <<"-", "3", ",", "0", " ">>

Revisions ==
    { Null, Num(0), Num(3), Flt(20), Txt(<<"A">>),
      Txt(<<"r", "1", "2", "b", "3">>) }

Designations ==
    { Null, Txt(<<>>), Txt(<<" ", "K", "1", " ">>),
      Txt(<<"u0414", "u0421", "u041c", "u041a", ".", "7", " ", "D", "X", "F">>) }

FirstCells == {Num(1), Txt(OrderID), Txt(<<"n", "a", "n">>)}

\* the rows of the four families
RevisionRows ==
    { BookRow(Num(1), d, h, Txt(K1)) : d \in {Txt(Desc10), Txt(Desc15)}, h \in Revisions }

DesignationRows ==
    { BookRow(Num(1), d, Num(3), i) : d \in {Txt(Desc10), Null}, i \in Designations }

SentinelRows ==
    { BookRow(a, d, Num(3), Txt(K1)) : a \in FirstCells, d \in {Txt(Desc10), Txt(Desc08), Null} }

LabelRows ==
    { BookRow(Num(1), d, Num(3), Txt(K1)) :
        d \in {Txt(Desc10), Txt(Desc15), Txt(Desc20), Txt(Desc30), Txt(Desc08), Null} }

\* files of a header row and n rows of one family
BookFiles(n, Rows) == { <<HeaderRow>> \o f : f \in [1..n -> Rows] }

InitBook ==
    /\ xls = <<>>
    /\ ProcInit
    /\ DiskInit
    /\ BookInit
    /\ \E n \in 0..(MaxRows - 1) :
          \/ saved \in BookFiles(n, RevisionRows)
          \/ saved \in BookFiles(n, DesignationRows)
          \/ saved \in BookFiles(n, SentinelRows)
          \/ saved \in BookFiles(n, LabelRows)
    /\ sdf = NoDf
    /\ sorted = FALSE
    /\ thickness_groups = <<>>
    /\ unmatched_rows = <<>>
    /\ total_input_quantity = 0
    /\ total_grouped_quantity = 0

\* sorter.create_sorted_workbook_auto(f"{order_id}_by_thickness.xlsx", order_id)
CreateSortedWorkbookAuto(oid) ==
    LET Returned(r) ==
            /\ ret' = r.ret
            /\ workbook' = IF r.ret = "True"
                           THEN [name |-> oid \o ByThickness, sheets |-> r.sheets]
                           ELSE workbook
    IN  /\ Returned(create_sorted_workbook_auto(sorted, thickness_groups,
                                                unmatched_rows, oid))
        /\ op' = "create_sorted_workbook_auto"
        /\ order_id' = oid
        /\ UNCHANGED <<xls, df, args, pre, saved, order_number, current_year, txt_files>>
        /\ UNCHANGED sortVars
        /\ UNCHANGED diskVars

CreateWorkbook == \E oid \in OrderIds : CreateSortedWorkbookAuto(oid)

NextBook == SorterLoadData \/ SortDataByThickness \/ CreateWorkbook

SpecBook == InitBook /\ [][NextBook]_vars

-----------------------------------------------------------------------------
(* ExcelAutomationGUI.process_file: the stages in their order, each started *)
(* only when the one before it returned True.                               *)

SheetHeader ==
    <<Txt(<<"N">>), Null, Null, Txt(<<"M">>), Txt(<<"S">>), Null, Txt(<<"P">>),
      Txt(<<"R">>), Txt(<<"D">>), Txt(<<"Q">>)>>

PipeKeys == {Txt(K1), Txt(K2)}
PipeQuantities == {Num(5), Num(3), Num(2)}

\* sheets of n data rows, with or without a header row ahead of them
PipeSheets(n) ==
    { h \o b : h \in {<<>>, <<SheetHeader>>},
               b \in Sheets(n, {Txt(Desc10)}, {Txt(<<"S">>)}, PipeKeys, PipeQuantities) }

InitPipe ==
    /\ \E n \in 0..MaxRows : xls \in PipeSheets(n)
    /\ ProcInit
    /\ DiskInit
    /\ BookInit
    /\ SorterInit

SaveDataWithFormatting ==
    /\ df.loaded
    /\ \E formatted \in BOOLEAN : saved' = written_rows(df, formatted)
    /\ op' = "save_data_with_formatting"
    /\ ret' = "True"
    /\ pre' = df
    /\ UNCHANGED <<xls, df, args>>
    /\ UNCHANGED sortVars
    /\ UNCHANGED bookVars
    /\ UNCHANGED diskVars

Succeeded_Any(o) == op = o

\* "if not <stage>(): raise Exception(...)": the next stage is reached only
\* when the stage before it returned True
Succeeded(o) == op = o /\ ret = "True"

PipeFilter == Succeeded("load_data") /\ RemoveEmptyRows(DefaultArgs)
PipeDedup == Succeeded("remove_empty_rows") /\ ProcessDuplicates(DefaultArgs)
PipeSave == Succeeded("process_duplicates") /\ SaveDataWithFormatting
PipeSorterLoad == Succeeded("save_data_with_formatting") /\ SorterLoadData
PipeSort == Succeeded("sorter_load_data") /\ SortDataByThickness

NextPipe ==
    LoadData \/ PipeFilter \/ PipeDedup \/ PipeSave \/ PipeSorterLoad \/ PipeSort

SpecPipe == InitPipe /\ [][NextPipe]_vars

-----------------------------------------------------------------------------
(* The order ID (ExcelAutomationGUI) and the names of the text files        *)
(* (ExcelToTxtConverter, src/excel_to_txt_converter.py)                     *)

\* the text t with zeros ahead of it up to the width w
ZeroPad(t, w) == [k \in 1..(w - Len(t)) |-> "0"] \o t

\* f"{n:03d}": the sign counts in the width
Format03d(n) ==
    IF n < 0 THEN <<"-">> \o ZeroPad(NatToStr(0 - n), 2) ELSE ZeroPad(NatToStr(n), 3)

\* str(current_year)[-2:]
year_suffix(year) ==
    LET Last2(t) == IF Len(t) > 2 THEN SubSeq(t, Len(t) - 1, Len(t)) ELSE t
    IN  Last2(IntToStr(year))

\* validate_inputs with an input file chosen: the order number field is not
\* blank and int() reads it
validate_inputs(entry) == Strip(entry) # <<>> /\ PyInt(Strip(entry)).exc = ""

\* order_id = f"{year_suffix}-{int(order_num):03d}"
make_order_id(order_num, year) ==
    year_suffix(year) \o <<"-">> \o Format03d(PyInt(order_num).v)

\* pattern_new = r'(\d{2}-\d{3})' matches at position i of s
pattern_new_at(s, i) ==
    /\ i + 5 <= Len(s)
    /\ s[i] \in Digits /\ s[i + 1] \in Digits
    /\ s[i + 2] = "-"
    /\ s[i + 3] \in Digits /\ s[i + 4] \in Digits /\ s[i + 5] \in Digits

\* [found, v]: None when neither pattern matches
extract_order_id_from_filename(filename, year) ==
    LET New(i) == [found |-> TRUE, v |-> SubSeq(filename, i, i + 5)]
        Old(digits) ==
            IF digits # <<>>
            THEN [found |-> TRUE,
                  v |-> year_suffix(year) \o <<"-">> \o Format03d(DigitsVal(digits))]
            ELSE [found |-> FALSE, v |-> <<>>]
    IN  IF \E i \in 1..Len(filename) : pattern_new_at(filename, i)
        THEN New(CHOOSE i \in 1..Len(filename) :
                     /\ pattern_new_at(filename, i)
                     /\ \A j \in 1..(i - 1) : ~pattern_new_at(filename, j))
        ELSE Old(LeadDigits(filename))

format_sheet_name_NoDot(sheet_name) == ReplaceChar(sheet_name, ".", <<>>)
format_sheet_name_for_filename(sheet_name) ==
    IF sheet_name = <<"1", ".", "5", "m", "m">> THEN <<"1", "5", "m", "m">>
    ELSE sheet_name

\* txt_filename of convert_sheet_to_txt for a sheet of the workbook input_name
txt_filename(sheet_name, input_name, year) ==
    LET Named(oid) ==
            (IF oid.found THEN oid.v ELSE <<"U", "N", "K", "N", "O", "W", "N">>)
            \o <<"_">> \o format_sheet_name_for_filename(sheet_name)
            \o <<".", "t", "x", "t">>
    IN  Named(extract_order_id_from_filename(input_name, year))

\* the names of the files convert_all_sheets creates, in sheet order
convert_all_sheets(wb, year) ==
    [k \in 1..Len(wb.sheets) |-> txt_filename(wb.sheets[k].title, wb.name, year)]

-----------------------------------------------------------------------------
(* One run of process_file from the order number to the text files.         *)

OrderNumbers ==
    { <<"7", "2">>, <<" ", "7", " ">>, <<"1", "0", "0", "0">>, <<"-", "5">>, <<"x">> }

Years == {2025, 2009}

\* sheets of a header row and n rows of the groups 1mm, 1.5mm and 0.8mm
FileSheets(n) ==
    { <<SheetHeader>> \o b :
        b \in Sheets(n, {Txt(Desc10), Txt(Desc15), Txt(Desc08)}, {Txt(<<"S">>)},
                     PipeKeys, {Num(5)}) }

InitFile ==
    /\ \E n \in 0..MaxRows : xls \in FileSheets(n)
    /\ ProcInit
    /\ DiskInit
    /\ SorterInit
    /\ order_number \in OrderNumbers
    /\ current_year \in Years
    /\ order_id = <<>>
    /\ workbook = NoBook
    /\ txt_files = <<>>

\* process_file, up to the order ID; start_processing has validated the window
FormOrderId ==
    /\ op = "init"
    /\ order_id = <<>>
    /\ validate_inputs(order_number)
    /\ order_id' = make_order_id(Strip(order_number), current_year)
    /\ UNCHANGED <<xls, saved, order_number, current_year, workbook, txt_files>>
    /\ UNCHANGED procVars
    /\ UNCHANGED sortVars
    /\ UNCHANGED diskVars

\* ExcelToTxtConverter(thickness_file): load_workbook, convert_all_sheets;
\* ret tells whether the list of files is non-empty
ConvertAllSheets ==
    /\ workbook # NoBook
    /\ txt_files' = convert_all_sheets(workbook, current_year)
    /\ op' = "convert_all_sheets"
    /\ ret' = IF workbook.sheets # <<>> THEN "True" ELSE "False"
    /\ UNCHANGED <<xls, df, args, pre, saved, order_number, current_year,
                   order_id, workbook>>
    /\ UNCHANGED sortVars
    /\ UNCHANGED diskVars

FileLoad == order_id # <<>> /\ LoadData
FileCreate == Succeeded("sort_data_by_thickness") /\ CreateSortedWorkbookAuto(order_id)
FileConvert == Succeeded("create_sorted_workbook_auto") /\ ConvertAllSheets

NextFile ==
    \/ FormOrderId
    \/ FileLoad
    \/ PipeFilter
    \/ PipeDedup
    \/ PipeSave
    \/ PipeSorterLoad
    \/ PipeSort
    \/ FileCreate
    \/ FileConvert

SpecFile == InitFile /\ [][NextFile]_vars

-----------------------------------------------------------------------------
(* Properties of process_duplicates_with_order_preservation *)

DedupOk == op = "process_duplicates" /\ ret = "True"

\* the position (1-based) of column c in the projection keep_cols
PosIn(keep_cols, c) == CHOOSE j \in 1..Len(keep_cols) : keep_cols[j] = c

Kept(c) == \E j \in 1..Len(args.keep_cols) : args.keep_cols[j] = c

KeyOf(row) == row[args.primary_key_col + 1]

Keyed(row) == ~IsNa(KeyOf(row)) /\ KeyOf(row) # Txt(<<>>)

\* the positions of the input rows that are the first to carry their key
FirstOccurrences ==
    SelectIdx([i \in 1..Len(pre.rows) |->
                  /\ Keyed(pre.rows[i])
                  /\ \A h \in 1..(i - 1) : KeyOf(pre.rows[h]) # KeyOf(pre.rows[i])],
              1, Len(pre.rows))

RECURSIVE SumQty(_, _, _)
\* the parsed quantities of the sum cells of the rows rs[i], i <= n, for
\* which sel[i] holds, summed
SumQty(rs, sel, n) ==
    IF n = 0 THEN 0
    ELSE SumQty(rs, sel, n - 1)
         + (IF sel[n] THEN additional_value(rs[n][args.sum_col + 1]).v ELSE 0)

\* C1: the key column of the output lists the distinct non-empty keys of the
\* input in the order of their first occurrence, each key in exactly one row
C1_OrderPreserved ==
    (DedupOk /\ Kept(args.primary_key_col)) =>
        LET fo == FirstOccurrences
            kp == PosIn(args.keep_cols, args.primary_key_col)
        IN  /\ Len(df.rows) = Len(fo)
            /\ \A j \in 1..Len(fo) : df.rows[j][kp] = KeyOf(pre.rows[fo[j]])
            /\ \A i, j \in 1..Len(df.rows) :
                   i # j => df.rows[i][kp] # df.rows[j][kp]
            /\ \A i \in 1..Len(pre.rows) :
                   Keyed(pre.rows[i]) =>
                       \E j \in 1..Len(df.rows) : df.rows[j][kp] = KeyOf(pre.rows[i])

C1_Witness ==
    /\ DedupOk
    /\ Len(pre.rows) = 3 /\ Len(df.rows) = 2
    /\ KeyOf(pre.rows[1]) = Txt(K2)
    /\ KeyOf(pre.rows[2]) = Txt(K1)
    /\ KeyOf(pre.rows[3]) = Txt(K2)

\* C2: the sum column of each output row is the sum, over all input rows with
\* that row's key, of the quantity parsed and rounded cell by cell
C2_SumConserved ==
    (DedupOk /\ Kept(args.primary_key_col) /\ Kept(args.sum_col)) =>
        LET kp == PosIn(args.keep_cols, args.primary_key_col)
            sp == PosIn(args.keep_cols, args.sum_col)
        IN  \A j \in 1..Len(df.rows) :
                LET sameKey == [i \in 1..Len(pre.rows) |->
                                   KeyOf(pre.rows[i]) = df.rows[j][kp]]
                IN  df.rows[j][sp] = Num(SumQty(pre.rows, sameKey, Len(pre.rows)))

\* two cells "2,5" of one key give 2 + 2 = 4, whereas round(5.0) = 5
C2_Witness ==
    /\ DedupOk
    /\ Len(pre.rows) = 3 /\ Len(df.rows) = 2
    /\ KeyOf(pre.rows[1]) = Txt(K1) /\ KeyOf(pre.rows[3]) = Txt(K1)
    /\ pre.rows[1][args.sum_col + 1] = Txt(<<"2", ",", "5">>)
    /\ pre.rows[3][args.sum_col + 1] = Txt(<<"2", ",", "5">>)
    /\ df.rows[1][PosIn(args.keep_cols, args.sum_col)] = Num(4)

\* C3: every kept field but the sum is the field of the first row with the key
C3_FirstOccurrenceKept ==
    DedupOk =>
        LET fo == FirstOccurrences
        IN  /\ Len(df.rows) = Len(fo)
            /\ \A j \in 1..Len(fo) : \A p \in 1..Len(args.keep_cols) :
                   args.keep_cols[p] # args.sum_col =>
                       df.rows[j][p] = pre.rows[fo[j]][args.keep_cols[p] + 1]

\* a duplicate in row 3 whose serial number differs from the first occurrence's
C3_Witness ==
    /\ DedupOk
    /\ Len(pre.rows) = 3
    /\ KeyOf(pre.rows[1]) = Txt(K1) /\ KeyOf(pre.rows[3]) = Txt(K1)
    /\ pre.rows[1][1] # pre.rows[3][1]
    /\ Kept(0)
    /\ df.rows[1][PosIn(args.keep_cols, 0)] = pre.rows[1][1]

\* C5: no output row has a null or empty key, and the output sums add up to
\* the parsed quantities of the keyed input rows alone
C5_EmptyKeyDropped ==
    (DedupOk /\ Kept(args.primary_key_col) /\ Kept(args.sum_col)) =>
        LET kp == PosIn(args.keep_cols, args.primary_key_col)
            sp == PosIn(args.keep_cols, args.sum_col)
            keyed == [i \in 1..Len(pre.rows) |-> Keyed(pre.rows[i])]
            RECURSIVE OutSum(_)
            OutSum(n) == IF n = 0 THEN 0 ELSE OutSum(n - 1) + df.rows[n][sp].n
        IN  /\ \A j \in 1..Len(df.rows) :
                   /\ ~IsNa(df.rows[j][kp]) /\ df.rows[j][kp] # Txt(<<>>)
                   /\ df.rows[j][sp].t = "int"
            /\ OutSum(Len(df.rows)) = SumQty(pre.rows, keyed, Len(pre.rows))

\* a row with an empty-string key and one with a null key, both with quantity 5
C5_Witness ==
    /\ DedupOk
    /\ Len(pre.rows) = 3
    /\ pre.rows[1][9] = Txt(<<>>) /\ pre.rows[1][10] = Num(5)
    /\ pre.rows[2][9] = Null /\ pre.rows[2][10] = Num(5)
    /\ pre.rows[3][9] = Txt(K1) /\ pre.rows[3][10] = Num(5)
    /\ Len(df.rows) = 1

\* C4: the output has exactly the columns keep_cols lists, in that order, and
\* none of the columns remove_cols lists
C4_Projection ==
    DedupOk =>
        /\ df.cols = [j \in 1..Len(args.keep_cols) |-> pre.cols[args.keep_cols[j] + 1]]
        /\ \A i \in 1..Len(df.rows) : Len(df.rows[i]) = Len(args.keep_cols)
        /\ \A r \in 1..Len(args.remove_cols) :
               \A j \in 1..Len(df.cols) : df.cols[j] # pre.cols[args.remove_cols[r] + 1]

-----------------------------------------------------------------------------
(* Properties of remove_empty_rows *)

FilterOk == op = "remove_empty_rows" /\ ret = "True"

\* the cell at 0-based position c is neither null nor the empty string
Filled(row, c) == row[c + 1] # Null /\ row[c + 1] # Txt(<<>>)

\* C6: with both positions in range the call succeeds and leaves exactly the
\* rows with data at p1 or at p2, in their order, unchanged, labelled 0..n-1
C6_RowFilter ==
    /\ (op = "remove_empty_rows" /\ pre.loaded
            /\ args.c1 < Len(pre.cols) /\ args.c2 < Len(pre.cols))
         => ret = "True"
    /\ FilterOk =>
         LET surv == SelectIdx([i \in 1..Len(pre.rows) |->
                                   Filled(pre.rows[i], args.c1)
                                       \/ Filled(pre.rows[i], args.c2)],
                               1, Len(pre.rows))
         IN  /\ df.rows = [j \in 1..Len(surv) |-> pre.rows[surv[j]]]
             /\ df.index = [j \in 1..Len(surv) |-> j - 1]
             /\ df.cols = pre.cols

\* rows 1 and 3 survive on different columns, row 2 is dropped
C6_Witness ==
    /\ FilterOk
    /\ args.c1 = 3 /\ args.c2 = 4
    /\ Len(pre.rows) = 3 /\ Len(df.rows) = 2
    /\ pre.rows[1][4] = Null /\ pre.rows[1][5] = Txt(<<"S">>)
    /\ pre.rows[2][4] = Txt(<<>>) /\ pre.rows[2][5] = Null
    /\ pre.rows[3][4] = Txt(Desc10) /\ pre.rows[3][5] = Txt(<<>>)
    /\ df.rows = <<pre.rows[1], pre.rows[3]>>

-----------------------------------------------------------------------------
(* Properties of sort_data_by_thickness *)

SortOk == op = "sort_data_by_thickness" /\ ret = "True"

\* the thickness groups and the unmatched list, as one list of row lists
Buckets ==
    [g \in 1..Len(thickness_groups) |-> thickness_groups[g].rows]
        \o <<unmatched_rows>>

\* the places (bucket, position) that hold the row labelled idx
Places(idx) ==
    {pl \in UNION {{<<b, k>> : k \in 1..Len(Buckets[b])} : b \in 1..Len(Buckets)} :
        Buckets[pl[1]][pl[2]].name = idx}

RECURSIVE BucketSizes(_)
BucketSizes(n) == IF n = 0 THEN 0 ELSE BucketSizes(n - 1) + Len(Buckets[n])

\* C7: every row but row 0 is in exactly one place of the groups and the
\* unmatched list, unchanged; row 0 is in none; each list is in input order
C7_Partition ==
    SortOk =>
        /\ \A i \in 2..Len(sdf.rows) :
               /\ Cardinality(Places(i - 1)) = 1
               /\ \A pl \in Places(i - 1) : Buckets[pl[1]][pl[2]].data = sdf.rows[i]
        /\ Places(0) = {}
        /\ \A b \in 1..Len(Buckets) : \A k \in 1..Len(Buckets[b]) :
               /\ Buckets[b][k].name \in 1..(Len(sdf.rows) - 1)
               /\ k > 1 => Buckets[b][k - 1].name < Buckets[b][k].name

\* two rows of one group and, in another state, a group and an unmatched row
C7_Witness ==
    /\ SortOk
    /\ Len(sdf.rows) = 3
    /\ Len(thickness_groups) = 1
    /\ Len(thickness_groups[1].rows) = 2
    /\ unmatched_rows = <<>>

\* C8 as stated: the group sizes and the unmatched size add up to the row
\* count of the classified table
C8_SizesEqualRowCount ==
    SortOk => BucketSizes(Len(Buckets)) = Len(sdf.rows)

\* C8 amended: they add up to the number of rows other than row 0
C8_SizesEqualDataRowCount ==
    SortOk =>
        BucketSizes(Len(Buckets)) = (IF sdf.rows = <<>> THEN 0 ELSE Len(sdf.rows) - 1)

C8_Witness ==
    /\ SortOk
    /\ Len(sdf.rows) = 3
    /\ Len(thickness_groups) = 1 /\ Len(thickness_groups[1].rows) = 1
    /\ Len(unmatched_rows) = 1

\* C9: on success the two quantity totals are equal
C9_QuantityConserved ==
    SortOk => total_input_quantity = total_grouped_quantity

\* a grouped row of quantity 5 and an unmatched row of quantity "2,5"
C9_Witness ==
    /\ SortOk
    /\ Len(thickness_groups) = 1 /\ Len(thickness_groups[1].rows) = 1
    /\ thickness_groups[1].rows[1].data[7] = Num(5)
    /\ Len(unmatched_rows) = 1
    /\ unmatched_rows[1].data[7] = Txt(<<"2", ",", "5">>)
    /\ total_input_quantity = 7

-----------------------------------------------------------------------------
(* End-to-end scenario A *)

ScenarioRow(i, k, q) == SheetRow(i, Txt(Desc10), Txt(<<"S">>), Txt(k), Num(q))

ScenarioA == <<ScenarioRow(1, K1, 5), ScenarioRow(2, K2, 3), ScenarioRow(3, K1, 2)>>

\* (key, description, quantity) of a row of the processed file
Triple(row) == <<row[6], row[2], row[7]>>

Triples(rows) == [i \in 1..Len(rows) |-> Triple(rows[i].data)]

DedupOutputA == <<<<Txt(K1), Txt(Desc10), Num(7)>>, <<Txt(K2), Txt(Desc10), Num(3)>>>>

Label1mm == <<"1", "m", "m">>

\* C10 as stated: scenario A dedups to (K1, 7), (K2, 3) and both rows are
\* placed in group "1mm", whose quantities add up to 10
C10_ScenarioA ==
    /\ (xls = ScenarioA /\ DedupOk) =>
           [i \in 1..Len(df.rows) |-> Triple(df.rows[i])] = DedupOutputA
    /\ (xls = ScenarioA /\ SortOk) =>
           /\ Len(thickness_groups) = 1
           /\ thickness_groups[1].thickness = Label1mm
           /\ Triples(thickness_groups[1].rows) = DedupOutputA
           /\ unmatched_rows = <<>>
           /\ total_grouped_quantity = 10

\* C10 amended: the dedup output is as stated; the classifier skips its row 0,
\* (K1, 7), and places (K2, 3) alone in group "1mm", with total 3.  Both rows
\* are placed there, with total 10, when a header row precedes the three rows
C10_ScenarioA_Row0Skipped ==
    /\ (xls = ScenarioA /\ DedupOk) =>
           [i \in 1..Len(df.rows) |-> Triple(df.rows[i])] = DedupOutputA
    /\ (xls = ScenarioA /\ SortOk) =>
           /\ Len(thickness_groups) = 1
           /\ thickness_groups[1].thickness = Label1mm
           /\ Triples(thickness_groups[1].rows) = <<DedupOutputA[2]>>
           /\ unmatched_rows = <<>>
           /\ total_input_quantity = 3
           /\ total_grouped_quantity = 3
    /\ (xls = <<SheetHeader>> \o ScenarioA /\ SortOk) =>
           /\ Len(thickness_groups) = 1
           /\ thickness_groups[1].thickness = Label1mm
           /\ Triples(thickness_groups[1].rows) = DedupOutputA
           /\ unmatched_rows = <<>>
           /\ total_grouped_quantity = 10

C10_Witness ==
    /\ xls = ScenarioA
    /\ SortOk
    /\ Len(sdf.rows) = 2
    /\ Len(thickness_groups) = 1

-----------------------------------------------------------------------------
(* Properties of extract_thickness_from_material, read off the one data     *)
(* row of a classified file                                                 *)

\* positions i..j of s hold a non-empty run of digits
DigitRun(s, i, j) == i <= j /\ j <= Len(s) /\ \A k \in i..j : s[k] \in Digits

\* a hyphen at i, digits, a comma at c, digits, whitespace at e
DecimalToken(s, i, c, e) ==
    /\ s[i] = "-"
    /\ DigitRun(s, i + 1, c - 1)
    /\ s[c] = ","
    /\ DigitRun(s, c + 1, e - 1)
    /\ e <= Len(s) /\ IsSpace(s[e])

\* a hyphen at i, digits, whitespace at e
IntegerToken(s, i, e) ==
    /\ s[i] = "-"
    /\ DigitRun(s, i + 1, e - 1)
    /\ e <= Len(s) /\ IsSpace(s[e])

DecimalStartsAt(s, i) ==
    \E c \in (i + 2)..Len(s) : \E e \in (c + 2)..Len(s) : DecimalToken(s, i, c, e)

IntegerStartsAt(s, i) == \E e \in (i + 2)..Len(s) : IntegerToken(s, i, e)

HasDecimalToken(s) == \E i \in 1..Len(s) : DecimalStartsAt(s, i)
HasIntegerToken(s) == \E i \in 1..Len(s) : IntegerStartsAt(s, i)

\* [i, c, e] of the first decimal token of s
FirstDecimalToken(s) ==
    LET i == CHOOSE x \in 1..Len(s) :
                 DecimalStartsAt(s, x) /\ \A h \in 1..(x - 1) : ~DecimalStartsAt(s, h)
        c == CHOOSE x \in (i + 2)..Len(s) :
                 \E e \in (x + 2)..Len(s) : DecimalToken(s, i, x, e)
        e == CHOOSE x \in (c + 2)..Len(s) : DecimalToken(s, i, c, x)
    IN  [i |-> i, c |-> c, e |-> e]

\* [i, e] of the first integer token of s
FirstIntegerToken(s) ==
    LET i == CHOOSE x \in 1..Len(s) :
                 IntegerStartsAt(s, x) /\ \A h \in 1..(x - 1) : ~IntegerStartsAt(s, h)
        e == CHOOSE x \in (i + 2)..Len(s) : IntegerToken(s, i, x)
    IN  [i |-> i, e |-> e]

AllZeros(f) == \A k \in 1..Len(f) : f[k] = "0"

\* the label the mapping gives a decimal token with digits a before and b
\* after the comma
DecimalLabel(a, b) ==
    LET whole == DigitsVal(a)
        half == b[1] = "5" /\ AllZeros(Tail(b))
    IN  IF whole = 1 /\ AllZeros(b) THEN <<"1", "m", "m">>
        ELSE IF whole = 1 /\ half THEN <<"1", ".", "5", "m", "m">>
        ELSE IF whole = 2 /\ AllZeros(b) THEN <<"2", "m", "m">>
        ELSE IF whole = 3 /\ AllZeros(b) THEN <<"3", "m", "m">>
        ELSE a \o <<".">> \o b \o <<"m", "m">>

\* the label the mapping gives an integer token with digits a
IntegerLabel(a) == NatToStr(DigitsVal(a)) \o <<"m", "m">>

LabelOfFirstDecimal(s) ==
    LET t == FirstDecimalToken(s)
    IN  DecimalLabel(SubSeq(s, t.i + 1, t.c - 1), SubSeq(s, t.c + 1, t.e - 1))

LabelOfFirstInteger(s) ==
    LET t == FirstIntegerToken(s)
    IN  IntegerLabel(SubSeq(s, t.i + 1, t.e - 1))

\* a file of a header row and one data row has been classified
OneRowSorted == SortOk /\ Len(sdf.rows) = 2

\* the description cell of that data row
Description == sdf.rows[2][material_col_index + 1]

\* the data row is alone in one group, which has this label
GroupedAs(label) ==
    /\ Len(thickness_groups) = 1
    /\ thickness_groups[1].thickness = label
    /\ Len(thickness_groups[1].rows) = 1
    /\ thickness_groups[1].rows[1].name = 1
    /\ unmatched_rows = <<>>

\* C11: a matched decimal token of value 1.0, 1.5, 2.0, 3.0 gives "1mm",
\* "1.5mm", "2mm", "3mm", any other one its digits with a dot for the comma
\* and "mm"; a matched integer token n gives "{n}mm"
C11_LabelMapping ==
    (OneRowSorted /\ Description.t = "str") =>
        /\ HasDecimalToken(Description.s) =>
               GroupedAs(LabelOfFirstDecimal(Description.s))
        /\ (~HasDecimalToken(Description.s) /\ HasIntegerToken(Description.s)) =>
               GroupedAs(LabelOfFirstInteger(Description.s))

\* a decimal token 1,50 with a trailing zero, grouped as "1.5mm"
C11_Witness ==
    /\ OneRowSorted
    /\ Description.t = "str"
    /\ HasDecimalToken(Description.s)
    /\ LET t == FirstDecimalToken(Description.s)
       IN  SubSeq(Description.s, t.c + 1, t.e - 1) = <<"5", "0">>
    /\ GroupedAs(<<"1", ".", "5", "m", "m">>)

\* C12: when the description holds a decimal token, the label is that of its
\* first decimal token, also when an integer token stands earlier in the
\* text; it is never the label of the integer token
C12_DecimalTokenFirst ==
    (OneRowSorted /\ Description.t = "str"
        /\ HasDecimalToken(Description.s) /\ HasIntegerToken(Description.s)) =>
        /\ FirstIntegerToken(Description.s).i < FirstDecimalToken(Description.s).i =>
               GroupedAs(LabelOfFirstDecimal(Description.s))
        /\ LabelOfFirstInteger(Description.s) # LabelOfFirstDecimal(Description.s) =>
               ~GroupedAs(LabelOfFirstInteger(Description.s))

\* an integer token ahead of the first decimal token, with another label
C12_Witness ==
    /\ OneRowSorted
    /\ Description.t = "str"
    /\ HasDecimalToken(Description.s)
    /\ HasIntegerToken(Description.s)
    /\ FirstIntegerToken(Description.s).i < FirstDecimalToken(Description.s).i
    /\ LabelOfFirstInteger(Description.s) # LabelOfFirstDecimal(Description.s)
    /\ GroupedAs(LabelOfFirstDecimal(Description.s))

\* the quantity of the one data row, as the totals count it
OneRowQuantity == IF sdf.rows[2][quantity_col_index + 1] = Num(5) THEN 5 ELSE 2

\* the text ends in a hyphen and digits, with no whitespace after them
EndsInToken(s) == \E i \in 1..Len(s) : s[i] = "-" /\ DigitRun(s, i + 1, Len(s))

\* C13: a data row whose description is null or holds no hyphen-prefixed
\* numeric token followed by whitespace is in the unmatched list and in no
\* group, and its quantity is counted in both totals
C13_NoTokenUnclassified ==
    (OneRowSorted
        /\ \/ IsNa(Description)
           \/ /\ Description.t = "str"
              /\ ~HasDecimalToken(Description.s)
              /\ ~HasIntegerToken(Description.s)) =>
        /\ thickness_groups = <<>>
        /\ Len(unmatched_rows) = 1
        /\ unmatched_rows[1].name = 1
        /\ unmatched_rows[1].data = sdf.rows[2]
        /\ total_input_quantity = OneRowQuantity
        /\ total_grouped_quantity = OneRowQuantity

\* a description that ends in a token with nothing after it, unclassified
C13_Witness ==
    /\ OneRowSorted
    /\ Description.t = "str"
    /\ EndsInToken(Description.s)
    /\ ~HasDecimalToken(Description.s)
    /\ ~HasIntegerToken(Description.s)
    /\ Len(unmatched_rows) = 1
    /\ total_grouped_quantity = 2

-----------------------------------------------------------------------------
(* Properties of the workbook by thickness.                                 *)

BookOk == op = "create_sorted_workbook_auto" /\ ret = "True"

\* the rows a sheet was filled from: the group of its label, or the
\* unmatched rows that create_sorted_workbook_auto kept
SourceRows(title) ==
    IF title = UnmatchedTitle THEN real_unmatched(unmatched_rows)
    ELSE (CHOOSE g \in {thickness_groups[k] : k \in 1..Len(thickness_groups)} :
              g.thickness = title).rows

\* the first cell of a row is none of the header sentinels
DataRow(row) == ~IsSentinel(row.data[1])

\* the sheet row a source row is written to, and whether it holds a record
SheetRowOf(k) == k + 1
Written(sheet, k) ==
    Len(sheet.rows) >= SheetRowOf(k) /\ sheet.rows[SheetRowOf(k)] # <<>>

RevisionOf(row) == row.data[5]
DesignationOf(row) == row.data[6]
PartNameOf(record) == record[2]
MachineOf(record) == record[7]
DrawingOf(record) == record[21]

\* a designation that is null or the empty text
NoDesignation(row) == DesignationOf(row) \in {Null, Txt(<<>>)}

\* the part name made of the row's own fields and the label of its sheet
OwnPartName(row, title) ==
    Strip(transformed_designation(DesignationOf(row)))
    \o version(RevisionOf(row)) \o thickness_suffix(title)

\* C14: in a created workbook, the PartName of the record of every data row
\* is the row's own transformed designation, followed by its version suffix
\* and the thickness suffix of its sheet, also when the row's designation is
\* null or empty.
C14_PartNameOwnRow ==
    BookOk =>
        \A s \in 1..Len(workbook.sheets) :
            \A k \in 1..Len(SourceRows(workbook.sheets[s].title)) :
                DataRow(SourceRows(workbook.sheets[s].title)[k]) =>
                    /\ Written(workbook.sheets[s], k)
                    /\ PartNameOf(workbook.sheets[s].rows[SheetRowOf(k)])
                         = Txt(OwnPartName(SourceRows(workbook.sheets[s].title)[k],
                                           workbook.sheets[s].title))

\* the records of a sheet: its rows after the header row that are not empty
Records(sheet) ==
    { sheet.rows[j] : j \in {i \in 2..Len(sheet.rows) : sheet.rows[i] # <<>>} }

HasSheet(title) ==
    \E s \in 1..Len(workbook.sheets) :
        workbook.sheets[s].title = title /\ Records(workbook.sheets[s]) # {}

\* the machine the specification names for a sheet label
MachineOfLabel(title) ==
    CASE title \in {<<"1", "m", "m">>, <<"2", "m", "m">>, <<"3", "m", "m">>}
           -> <<"A", "5", "-", "2", "5">>
      [] title = <<"1", ".", "5", "m", "m">>
           -> <<"E", "5", "_", "T", "O", "P", "A", "Z">>
      [] OTHER -> <<>>

\* C15: every record of a sheet of a created workbook has the Machine
\* "A5-25" on the sheets 1mm, 2mm and 3mm, "E5_TOPAZ" on the sheet 1.5mm and
\* the empty text on every other sheet.
C15_MachineByLabel ==
    BookOk =>
        \A s \in 1..Len(workbook.sheets) :
            \A record \in Records(workbook.sheets[s]) :
                MachineOf(record) = Txt(MachineOfLabel(workbook.sheets[s].title))

\* a workbook with records on the sheet 1.5mm and on a sheet of another label
C15_Witness ==
    /\ BookOk
    /\ HasSheet(<<"1", ".", "5", "m", "m">>)
    /\ \/ HasSheet(<<"2", "m", "m">>)
       \/ HasSheet(<<"0", ".", "8", "m", "m">>)
       \/ HasSheet(UnmatchedTitle)

\* the text of a revision cell, as str() gives it, without outer blanks
RevisionText(h) == IF h = Null THEN <<>> ELSE Strip(PyStr(h))

HasDigit(s) == \E i \in 1..Len(s) : s[i] \in Digits

\* the first maximal run of digits of a text that holds a digit
FirstDigitRun(s) ==
    LET i == CHOOSE a \in 1..Len(s) :
                 s[a] \in Digits /\ \A b \in 1..(a - 1) : s[b] \notin Digits
        j == CHOOSE e \in 1..Len(s) :
                 /\ e >= i
                 /\ \A b \in i..e : s[b] \in Digits
                 /\ (e = Len(s) \/ s[e + 1] \notin Digits)
    IN  SubSeq(s, i, j)

\* the version suffix the specification gives for a revision cell
VersionSuffix(h) ==
    IF HasDigit(RevisionText(h)) THEN <<"_", "V">> \o FirstDigitRun(RevisionText(h))
    ELSE <<"_", "V", "0">>

\* the name of a row with a designation: designation, version, thickness
VersionedName(row, title) ==
    Strip(transformed_designation(DesignationOf(row)))
    \o VersionSuffix(RevisionOf(row)) \o thickness_suffix(title)

\* C16: in a created workbook, the record of a data row with a non-empty
\* designation carries in PartName and in Drawing the version suffix "_V"
\* followed by the first digit sequence of the text of the revision cell,
\* and "_V0" when that cell is null, empty or without a digit.
C16_VersionSuffix ==
    BookOk =>
        \A s \in 1..Len(workbook.sheets) :
            \A k \in 1..Len(SourceRows(workbook.sheets[s].title)) :
                (/\ DataRow(SourceRows(workbook.sheets[s].title)[k])
                 /\ ~NoDesignation(SourceRows(workbook.sheets[s].title)[k])) =>
                    /\ Written(workbook.sheets[s], k)
                    /\ PartNameOf(workbook.sheets[s].rows[SheetRowOf(k)])
                         = Txt(VersionedName(SourceRows(workbook.sheets[s].title)[k],
                                             workbook.sheets[s].title))
                    /\ DrawingOf(workbook.sheets[s].rows[SheetRowOf(k)])
                         = Txt(base_path \o <<"\\">>
                               \o VersionedName(SourceRows(workbook.sheets[s].title)[k],
                                                workbook.sheets[s].title))

\* a sheet filled from a row whose revision holds digits after a letter and
\* from a row whose revision holds no digit
C16_Witness ==
    /\ BookOk
    /\ \E s \in 1..Len(workbook.sheets) :
          /\ \E k \in 1..Len(SourceRows(workbook.sheets[s].title)) :
                /\ RevisionOf(SourceRows(workbook.sheets[s].title)[k])
                     = Txt(<<"r", "1", "2", "b", "3">>)
                /\ Written(workbook.sheets[s], k)
                /\ PartNameOf(workbook.sheets[s].rows[SheetRowOf(k)])
                     = Txt(<<"K", "1", "_", "V", "1", "2", "_", "1", "m", "m", "Z", "n">>)
          /\ \E k \in 1..Len(SourceRows(workbook.sheets[s].title)) :
                /\ RevisionOf(SourceRows(workbook.sheets[s].title)[k])
                     \in {Null, Txt(<<"A">>)}
                /\ Written(workbook.sheets[s], k)

\* the positions of the data rows among the rows a sheet was filled from
DataPositions(src) == SelectIdx([k \in 1..Len(src) |-> DataRow(src[k])], 1, Len(src))

\* sheet row j + 1 holds the 27-field record of the j-th data row
RecordOfRow(sheet, j, row) ==
    /\ Len(sheet.rows[j + 1]) = Len(headers)
    /\ ~NoDesignation(row) =>
          PartNameOf(sheet.rows[j + 1]) = Txt(VersionedName(row, sheet.title))

Consecutive(sheet, src, positions) ==
    /\ Len(sheet.rows) = 1 + Len(positions)
    /\ sheet.rows[1] = [j \in 1..Len(headers) |-> Txt(headers[j])]
    /\ \A j \in 1..Len(positions) : RecordOfRow(sheet, j, src[positions[j]])

\* C17: every sheet of a created workbook holds the header row of 27 names
\* and then, in consecutive sheet rows and in the order of the group, one
\* 27-field record for each row whose first cell is no header sentinel; a
\* sentinel row leaves no record and no empty row.
C17_HeaderThenRecords ==
    BookOk =>
        \A s \in 1..Len(workbook.sheets) :
            Consecutive(workbook.sheets[s], SourceRows(workbook.sheets[s].title),
                        DataPositions(SourceRows(workbook.sheets[s].title)))

-----------------------------------------------------------------------------
(* Properties of the order ID and of the names of the text files.           *)

\* the number read from the order number field
OrderNumber == PyInt(Strip(order_number)).v

\* the last two digits of the year, a hyphen, the number on three digits
YearDashNumber(year, n) ==
    <<DigitChar((year % 100) \div 10), DigitChar(year % 10), "-">>
    \o (IF n < 10 THEN <<"0", "0">> ELSE IF n < 100 THEN <<"0">> ELSE <<>>)
    \o NatToStr(n)

\* C18: the order ID of an accepted order number is the last two digits of
\* the year, a hyphen and the number zero-padded to 3 digits, and the order
\* ID that extract_order_id_from_filename reads from the name of the
\* workbook by thickness is the order ID that named it.
C18_OrderIdRoundTrip ==
    /\ (order_id # <<>> /\ OrderNumber >= 0) =>
          order_id = YearDashNumber(current_year, OrderNumber)
    /\ workbook # NoBook =>
          /\ workbook.name = order_id \o ByThickness
          /\ extract_order_id_from_filename(workbook.name, current_year)
               = [found |-> TRUE, v |-> order_id]

Converted == op = "convert_all_sheets"

\* the order ID the converter reads from the name of the workbook
ReadBack == extract_order_id_from_filename(workbook.name, current_year).v

Label15 == <<"1", ".", "5", "m", "m">>
Label08 == <<"0", ".", "8", "m", "m">>

\* the label without its dots
DotRemoved(title) == SelectSeq(title, LAMBDA c : c # ".")

\* C19 as stated: the text file of every sheet is named by the order ID, an
\* underscore, the sheet label with the dot removed, and ".txt".
C19_DotRemoved ==
    Converted =>
        /\ Len(txt_files) = Len(workbook.sheets)
        /\ \A k \in 1..Len(txt_files) :
              txt_files[k] = ReadBack \o <<"_">> \o DotRemoved(workbook.sheets[k].title)
                             \o <<".", "t", "x", "t">>

\* C19, amended: the text file of the sheet 1.5mm is named by the order ID
\* and "_15mm.txt"; the file of every other sheet is named by the order ID,
\* an underscore, the sheet label unchanged, and ".txt".
C19_DotRemovedFor15mm ==
    Converted =>
        /\ Len(txt_files) = Len(workbook.sheets)
        /\ \A k \in 1..Len(txt_files) :
              txt_files[k] = ReadBack \o <<"_">>
                             \o (IF workbook.sheets[k].title = Label15
                                 THEN <<"1", "5", "m", "m">>
                                 ELSE workbook.sheets[k].title)
                             \o <<".", "t", "x", "t">>

\* text files written for a workbook with the sheets 1.5mm and 0.8mm
C19_Witness ==
    /\ Converted
    /\ \E k \in 1..Len(txt_files) : workbook.sheets[k].title = Label15
    /\ \E k \in 1..Len(txt_files) :
          /\ workbook.sheets[k].title = Label08
          /\ txt_files[k] = ReadBack \o <<"_", "0", ".", "8", "m", "m", ".", "t", "x", "t">>

-----------------------------------------------------------------------------
(* Properties of the failures of the first stage.                           *)

Failed(o) == op = o /\ ret = "False"

\* C20: when remove_empty_rows or process_duplicates_with_order_preservation
\* returns False (a column position out of range, no row with a key, an
\* error during the scan), the table of the processor is the table it had
\* when the operation was called.
C20_FailureLeavesTable ==
    (Failed("remove_empty_rows") \/ Failed("process_duplicates")) => df = pre

\* the deduplication has failed on an infinite quantity in a row with a key,
\* on a loaded table whose columns are all in range
C20_Witness ==
    /\ Failed("process_duplicates")
    /\ df.loaded
    /\ args.sum_col < NCols(df)
    /\ \E i \in 1..Len(df.rows) :
          /\ df.rows[i][args.primary_key_col + 1] = Txt(K1)
          /\ df.rows[i][args.sum_col + 1] = Inf

-----------------------------------------------------------------------------
(* Properties of the deduplication on positions out of range and on sum     *)
(* cells that are no numbers.                                               *)

DedupCalled == op = "process_duplicates" /\ pre.loaded

\* a position of keep_cols is beyond the columns of the table at the call
KeepBeyondArity == \E j \in 1..Len(args.keep_cols) : args.keep_cols[j] >= NCols(pre)

\* the key and the sum position are in range and some row has a key
OnlyKeepBeyondArity ==
    /\ KeepBeyondArity
    /\ args.primary_key_col < NCols(pre) /\ args.sum_col < NCols(pre)
    /\ \E i \in 1..Len(pre.rows) : Keyed(pre.rows[i])

\* the positions of keep_cols that are in range, in their given order
KeepInRange ==
    SelectSeq(args.keep_cols, LAMBDA c : c < NCols(pre))

\* C21 as stated: with a position of keep_cols beyond the columns of the
\* table, the deduplication succeeds and the output has the columns of the
\* other positions of keep_cols, in their given order.
C21_BeyondArityDropped ==
    (DedupCalled /\ OnlyKeepBeyondArity) =>
        /\ ret = "True"
        /\ df.cols = [j \in 1..Len(KeepInRange) |-> pre.cols[KeepInRange[j] + 1]]

\* C21, amended: with a position of keep_cols beyond the columns of the
\* table, the deduplication returns False and leaves the table as it was.
C21_BeyondArityFails ==
    (DedupCalled /\ KeepBeyondArity) => (ret = "False" /\ df = pre)

\* the deduplication was called with keep_cols = [0, 8, 12, 9] on a table of
\* 10 columns that has a row with a key
C21_Witness ==
    /\ DedupCalled
    /\ OnlyKeepBeyondArity
    /\ NCols(pre) = 10
    /\ args.keep_cols = <<0, 8, 12, 9>>

\* every position of the call is in range and some row has a key
DedupCanRun ==
    /\ DedupCalled
    /\ \A j \in 1..Len(args.keep_cols) : args.keep_cols[j] < NCols(pre)
    /\ args.primary_key_col < NCols(pre) /\ args.sum_col < NCols(pre)
    /\ \E i \in 1..Len(pre.rows) : Keyed(pre.rows[i])

\* the number of a sum cell, 0 for a cell that is no number
NumberOrZero(cell) ==
    CASE cell.t = "int" -> cell.n
      [] cell.t = "str" /\ cell.s # <<>> /\ AllDigits(cell.s) -> DigitsVal(cell.s)
      [] OTHER -> 0

RECURSIVE SumOrZero(_, _, _)
SumOrZero(rs, key, n) ==
    IF n = 0 THEN 0
    ELSE SumOrZero(rs, key, n - 1)
         + (IF KeyOf(rs[n]) = key THEN NumberOrZero(rs[n][args.sum_col + 1]) ELSE 0)

\* C22: whatever the sum cells hold, a deduplication whose positions are in
\* range on a table with a key succeeds, and the sum of each output row adds
\* the numbers of the rows of its key, a cell that is no number counting 0.
C22_ParseFailureCountsZero ==
    DedupCanRun =>
        /\ ret = "True"
        /\ (Kept(args.primary_key_col) /\ Kept(args.sum_col)) =>
              \A j \in 1..Len(df.rows) :
                  df.rows[j][PosIn(args.keep_cols, args.sum_col)]
                    = Num(SumOrZero(pre.rows,
                                    df.rows[j][PosIn(args.keep_cols, args.primary_key_col)],
                                    Len(pre.rows)))

-----------------------------------------------------------------------------
(* Paths and the files on disk. A path is [dir, name]; the name is a text.  *)
(* A file is [dir, name, data]; data is [kind, rows].                       *)

RECURSIVE LastDot(_)
\* str.rfind("."), 1-based; 0 when the name holds no "."
LastDot(name) ==
    IF name = <<>> THEN 0
    ELSE IF name[Len(name)] = "." THEN Len(name)
    ELSE LastDot(SubSeq(name, 1, Len(name) - 1))

\* PurePath.suffix
Suffix(name) ==
    LET At(k) == IF 1 < k /\ k < Len(name) THEN SubSeq(name, k, Len(name)) ELSE <<>>
    IN  At(LastDot(name))

\* PurePath.stem
Stem(name) ==
    LET At(k) == IF 1 < k /\ k < Len(name) THEN SubSeq(name, 1, k - 1) ELSE name
    IN  At(LastDot(name))

\* PurePath.with_suffix
with_suffix(path, suffix) == [dir |-> path.dir, name |-> Stem(path.name) \o suffix]

Xlsx == <<".", "x", "l", "s", "x">>
Tmp == <<".", "t", "m", "p">>
TempXlsx == <<".", "t", "e", "m", "p", ".", "x", "l", "s", "x">>
Processed == <<"_", "p", "r", "o", "c", "e", "s", "s", "e", "d">>

PathOf(f) == [dir |-> f.dir, name |-> f.name]

\* Path.exists
Exists(dsk, path) == \E f \in dsk : PathOf(f) = path

FileAt(dsk, path) == CHOOSE f \in dsk : PathOf(f) = path

\* the file at the path is created or replaced
WriteFile(dsk, path, data) ==
    {f \in dsk : PathOf(f) # path} \cup {[dir |-> path.dir, name |-> path.name, data |-> data]}

\* Path.unlink that succeeded
Unlink(dsk, path) == {f \in dsk : PathOf(f) # path}

\* Path.rename that succeeded: the file moves, replacing what is at the target
Rename(dsk, from, to) ==
    IF from = to THEN dsk
    ELSE WriteFile(Unlink(dsk, from), to, FileAt(dsk, from).data)

\* f"{stem}_{timestamp}{suffix}" next to the path
timestamped(path, timestamp) ==
    [dir |-> path.dir,
     name |-> Stem(path.name) \o <<"_">> \o NatToStr(timestamp) \o Suffix(path.name)]

Raised(outcome) == outcome # "ok"

-----------------------------------------------------------------------------
(* ExcelProcessor.save_data_simple and save_data_with_formatting. self is   *)
(* [input_file, has_workbook, output_file, df, disk]; e holds what the      *)
(* file system answers to each call: "ok", "PermissionError" or "OSError"; *)
(* the result is [ret, output_file, disk, attempts].                        *)

\* what writing the table answers: to_excel of no table is an AttributeError
Answer(self, outcome) == IF self.df.loaded THEN outcome ELSE "AttributeError"

\* the file to_excel(index=False, header=False) writes
PlainFile(self) == [kind |-> "df", rows |-> written_rows(self.df, FALSE)]

\* the last attempt, on the Desktop, after any exception of the first part;
\* data is the file to_excel writes
save_to_desktop(self, of, dsk, tried, e, data) ==
    LET desktop_file == [dir |-> "desktop", name |-> of.name]
        Answered(a) ==
            [ret |-> IF Raised(a) THEN "False" ELSE "True",
             output_file |-> IF Raised(a) THEN of ELSE desktop_file,
             disk |-> IF Raised(a) THEN dsk ELSE WriteFile(dsk, desktop_file, data),
             attempts |-> tried \o <<[path |-> desktop_file, outcome |-> a]>>]
    IN  Answered(Answer(self, e.desktop))

save_to_temp_Skipped(self, of, dsk, tried, e, data) ==
    save_to_desktop(self, of, dsk, tried, e, data)

\* except PermissionError: the same name in tempfile.gettempdir(); when
\* that write raises, the outer handler goes on to the Desktop
save_to_temp(self, of, dsk, tried, e, data) ==
    LET temp_file == [dir |-> "temp", name |-> of.name]
    IN  IF Raised(e.temp)
        THEN save_to_desktop(self, of, dsk,
                             tried \o <<[path |-> temp_file, outcome |-> e.temp]>>, e, data)
        ELSE [ret |-> "True", output_file |-> temp_file,
              disk |-> WriteFile(dsk, temp_file, data),
              attempts |-> tried \o <<[path |-> temp_file, outcome |-> "ok"]>>]

save_data_simple(self, output_file_arg, e) ==
    LET Answered(of, dsk, a, data) ==
            IF a = "ok"
            THEN [ret |-> "True", output_file |-> of,
                  disk |-> WriteFile(dsk, of, data),
                  attempts |-> <<[path |-> of, outcome |-> "ok"]>>]
            ELSE IF a = "PermissionError"
            THEN save_to_temp(self, of, dsk, <<[path |-> of, outcome |-> a]>>, e, data)
            ELSE save_to_desktop(self, of, dsk, <<[path |-> of, outcome |-> a]>>, e, data)
        Target(of, dsk) == Answered(of, dsk, Answer(self, e.target), PlainFile(self))
        Checked(of, there) ==
            Target(IF there /\ Raised(e.unlink) THEN timestamped(of, e.time2) ELSE of,
                   IF there /\ ~Raised(e.unlink) THEN Unlink(self.disk, of) ELSE self.disk)
        Set(of) ==
            IF of = NoPath
            THEN \* output_file is None: an AttributeError in both parts
                 [ret |-> "False", output_file |-> of, disk |-> self.disk, attempts |-> <<>>]
            ELSE Checked(of, Exists(self.disk, of))
    IN  Set(IF output_file_arg = NoPath THEN self.output_file ELSE output_file_arg)

RECURSIVE base_output_file(_, _, _)
\* the loop over counter = 1, 2, ... while the candidate exists
base_output_file(input, counter, dsk) ==
    LET candidate == [dir |-> input.dir,
                      name |-> Stem(input.name) \o Processed \o <<"_">>
                               \o NatToStr(counter) \o Xlsx]
    IN  IF Exists(dsk, candidate) THEN base_output_file(input, counter + 1, dsk)
        ELSE candidate

default_output_file_Base(input, dsk) ==
    [dir |-> input.dir, name |-> Stem(input.name) \o Processed \o Xlsx]

default_output_file(input, dsk) ==
    LET first == [dir |-> input.dir, name |-> Stem(input.name) \o Processed \o Xlsx]
    IN  IF Exists(dsk, first) THEN base_output_file(input, 1, dsk) ELSE first

\* the rename probe of an existing target: [busy, disk]
rename_probe(dsk, of, e) ==
    LET temp_name == with_suffix(of, Tmp)
    IN  IF Raised(e.rename1) THEN [busy |-> TRUE, disk |-> dsk]
        ELSE IF Raised(e.rename2) THEN [busy |-> TRUE, disk |-> Rename(dsk, of, temp_name)]
        ELSE [busy |-> FALSE, disk |-> Rename(Rename(dsk, of, temp_name), temp_name, of)]

save_data_with_formatting(self, output_file_arg, e) ==
    LET Saved(of, dsk) ==
            IF self.has_workbook /\ self.df.loaded /\ ~Raised(e.formatting)
            THEN \* _save_with_openpyxl_formatting
                 [ret |-> "True", output_file |-> of,
                  disk |-> WriteFile(dsk, of, [kind |-> "df", rows |-> written_rows(self.df, TRUE)]),
                  attempts |-> <<>>]
            ELSE \* no workbook, or the formatted save raised
                 save_data_simple([self EXCEPT !.output_file = of, !.disk = dsk], NoPath, e)
        Probed(of, p) ==
            Saved(IF p.busy THEN timestamped(of, e.time1) ELSE of, p.disk)
        Chosen(of) ==
            Probed(of, IF Exists(self.disk, of) THEN rename_probe(self.disk, of, e)
                       ELSE [busy |-> FALSE, disk |-> self.disk])
    IN  Chosen(IF output_file_arg = NoPath
               THEN default_output_file(self.input_file, self.disk)
               ELSE output_file_arg)

-----------------------------------------------------------------------------
(* One run of the processor over the files of a folder: load_data, then one *)
(* save, by save_data_with_formatting or by save_data_simple directly.      *)

SaveSheets ==
    {<<SheetHeader, SheetRow(1, Txt(Desc10), Txt(<<"S">>), Txt(K1), Num(5))>>}

SourceNames == {<<"a", ".", "x", "l", "s", "x">>, <<"a", ".", "x", "l", "s">>}
SourceDirs == {"work", "desktop"}
SourcePaths == {[dir |-> d, name |-> n] : d \in SourceDirs, n \in SourceNames}

\* the path load_data leaves in input_file
working_copy(input) ==
    IF Suffix(input.name) = <<".", "x", "l", "s">> THEN with_suffix(input, TempXlsx)
    ELSE input

OutXlsx(dir) == [dir |-> dir, name |-> <<"o", "u", "t", ".", "x", "l", "s", "x">>]

\* files that may lie in the folder before the run
OldPaths(input) ==
    {default_output_file_Base(working_copy(input), {}),
     base_output_file(working_copy(input), 1, {}),
     OutXlsx(input.dir),
     with_suffix(OutXlsx(input.dir), Tmp)}

\* an older file; its one cell tells the files apart
OldFile(path) ==
    [dir |-> path.dir, name |-> path.name,
     data |-> [kind |-> "old", rows |-> <<<<Txt(path.name)>>>>]]
SourceFile(path, rows) == [dir |-> path.dir, name |-> path.name, data |-> [kind |-> "source", rows |-> rows]]

Times == {1762300800, 1762300801}

\* what the file system and the clock answer during one save
Answers ==
    {e \in [rename1 : {"ok", "PermissionError"}, rename2 : {"ok", "PermissionError"},
            formatting : {"ok", "OSError"}, unlink : {"ok", "PermissionError"},
            target : {"ok", "PermissionError", "OSError"},
            temp : {"ok", "OSError"}, desktop : {"ok", "OSError"},
            time1 : Times, time2 : Times] : e.time1 <= e.time2}

OutputArgs(input) == {NoPath, OutXlsx(input.dir)}

InitSave ==
    /\ xls \in SaveSheets
    /\ ProcInit
    /\ BookInit
    /\ SorterInit
    /\ input_file \in SourcePaths
    /\ has_workbook = FALSE
    /\ output_file = NoPath
    /\ attempts = <<>>
    /\ converter_workbook = NoBook
    /\ \E old \in SUBSET OldPaths(input_file) :
          disk = {SourceFile(input_file, xls)} \cup {OldFile(p) : p \in old}

ProcSelf == [input_file |-> input_file, has_workbook |-> has_workbook,
             output_file |-> output_file, df |-> df, disk |-> disk]

\* ExcelProcessor.load_data with the files it touches: an .xls source is
\* converted into "<stem>.temp.xlsx", which becomes input_file
ProcLoadData ==
    /\ op = "init"
    /\ df' = ReadExcel(xls)
    /\ op' = "load_data"
    /\ ret' = "True"
    /\ pre' = ProcSelf
    /\ input_file' = working_copy(input_file)
    /\ disk' = IF working_copy(input_file) = input_file THEN disk
               ELSE WriteFile(disk, working_copy(input_file),
                              [kind |-> "converted", rows |-> xls])
    /\ has_workbook' \in BOOLEAN
    /\ UNCHANGED <<xls, args, saved, output_file, attempts, converter_workbook>>
    /\ UNCHANGED sortVars
    /\ UNCHANGED bookVars

SaveReturned(r) ==
    /\ ret' = r.ret
    /\ output_file' = r.output_file
    /\ disk' = r.disk
    /\ attempts' = r.attempts
    /\ pre' = ProcSelf
    /\ UNCHANGED <<xls, df, saved, input_file, has_workbook, converter_workbook>>
    /\ UNCHANGED sortVars
    /\ UNCHANGED bookVars

SaveWithFormatting ==
    /\ op \in {"init", "load_data"}
    /\ \E o \in OutputArgs(input_file), e \in Answers :
          /\ SaveReturned(save_data_with_formatting(ProcSelf, o, e))
          /\ args' = [output_file |-> o, e |-> e]
    /\ op' = "save_data_with_formatting"

SaveSimple ==
    /\ op \in {"init", "load_data"}
    /\ \E o \in OutputArgs(input_file), e \in Answers :
          /\ SaveReturned(save_data_simple(ProcSelf, o, e))
          /\ args' = [output_file |-> o, e |-> e]
    /\ op' = "save_data_simple"

NextSave == ProcLoadData \/ SaveWithFormatting \/ SaveSimple

SpecSave == InitSave /\ [][NextSave]_vars

-----------------------------------------------------------------------------
(* Properties of the save: the fallback places, the busy target, the        *)
(* default name.                                                            *)

SimpleCalled == op = "save_data_simple" /\ attempts # <<>>
TargetDenied == SimpleCalled /\ attempts[1].outcome = "PermissionError"
InTemp(path) == [dir |-> "temp", name |-> path.name]
OnDesktop(path) == [dir |-> "desktop", name |-> path.name]
LastAttempt == attempts[Len(attempts)]

\* C23: when the write of the target path is answered with permission
\* denied, save_data_simple tries the same file name in the temp directory
\* next; it tries the Desktop only after the temp attempt failed, and it
\* returns False only after the Desktop attempt failed as well. Whenever it
\* returns True, output_file is the path of the one attempt that succeeded,
\* that file holds the table, and no other file has been written.
C23_FallbackOrder ==
    /\ TargetDenied =>
          /\ Len(attempts) >= 2
          /\ attempts[2].path = InTemp(attempts[1].path)
          /\ attempts[2].outcome = "ok" => Len(attempts) = 2 /\ ret = "True"
          /\ attempts[2].outcome # "ok" =>
                /\ Len(attempts) = 3
                /\ attempts[3].path = OnDesktop(attempts[1].path)
          /\ ret = "False" => Len(attempts) = 3 /\ attempts[3].outcome # "ok"
    /\ (SimpleCalled /\ ret = "True") =>
          /\ LastAttempt.outcome = "ok"
          /\ output_file = LastAttempt.path
          /\ \A k \in 1..(Len(attempts) - 1) : attempts[k].outcome # "ok"
          /\ Exists(disk, output_file)
          /\ FileAt(disk, output_file).data = [kind |-> "df", rows |-> written_rows(df, FALSE)]
          /\ \A f \in disk : PathOf(f) # output_file => f \in pre.disk

\* the target was denied, the temp directory failed, the Desktop took the file
C23_Witness ==
    /\ TargetDenied
    /\ Len(attempts) = 3
    /\ attempts[2].outcome # "ok"
    /\ ret = "True"
    /\ output_file = OnDesktop(attempts[1].path)
    /\ output_file # attempts[1].path

FormattingCalled == op = "save_data_with_formatting"

\* the path save_data_with_formatting sets out with
TargetPath ==
    IF args.output_file = NoPath THEN default_output_file(pre.input_file, pre.disk)
    ELSE args.output_file

TargetExisted == FormattingCalled /\ Exists(pre.disk, TargetPath)
ProbeFailed == Raised(args.e.rename1) \/ Raised(args.e.rename2)

\* the path the first write of the save went to
FirstWritten == IF attempts = <<>> THEN output_file ELSE attempts[1].path

\* C24: in save_data_with_formatting, when the target path exists and the
\* rename probe fails, the table goes to "{stem}_{unix timestamp}{ext}" in
\* the same directory and the existing target file is still at its path
\* with its content; when the probe succeeds the write goes to the target
\* path itself (or, when save_data_simple takes over and cannot unlink the
\* target, to its own timestamped name).
C24_BusyTargetKept ==
    TargetExisted =>
        IF ProbeFailed
        THEN /\ FirstWritten = timestamped(TargetPath, args.e.time1)
             /\ FirstWritten.dir = TargetPath.dir
             /\ FileAt(pre.disk, TargetPath) \in disk
        ELSE \/ FirstWritten = TargetPath
             \/ /\ attempts # <<>>
                /\ Raised(args.e.unlink)
                /\ FirstWritten = timestamped(TargetPath, args.e.time2)

DefaultNamed == FormattingCalled /\ args.output_file = NoPath

\* "{stem}_processed.xlsx" for n = 0, "{stem}_processed_{n}.xlsx" for n > 0
NthName(input, n) ==
    [dir |-> input.dir,
     name |-> Stem(input.name) \o Processed
              \o (IF n = 0 THEN <<>> ELSE <<"_">> \o NatToStr(n)) \o Xlsx]

\* the file the run was started on: still on disk with its content
SourceKept ==
    \E p \in SourcePaths :
        /\ input_file \in {p, working_copy(p)}
        /\ SourceFile(p, xls) \in disk

-----------------------------------------------------------------------------
(* ExcelAutomationGUI.process_file as one run over the folder: every stage  *)
(* of the three steps, with the stages that can fail failing.               *)

\* a header row and n rows; a quantity may be infinite, which fails the
\* deduplication
RunSheets(n) ==
    { <<SheetHeader>> \o b :
        b \in Sheets(n, {Txt(Desc10)}, {Txt(<<"S">>)}, PipeKeys, {Num(5), Inf}) }

RunOrderNumbers == { <<"7", "2">>, <<"x">> }

\* the folder takes every write, or refuses every write
RunAnswers ==
    {e \in Answers :
        /\ e.rename1 = "ok" /\ e.rename2 = "ok" /\ e.unlink = "ok"
        /\ e.time1 = e.time2 /\ \A t \in Times : e.time1 <= t
        /\ \/ e.formatting = "ok" /\ e.target = "ok" /\ e.temp = "ok" /\ e.desktop = "ok"
           \/ e.formatting # "ok" /\ e.target = "OSError" /\ e.temp # "ok" /\ e.desktop # "ok"}

InitRun ==
    /\ \E n \in 0..MaxRows : xls \in RunSheets(n)
    /\ ProcInit
    /\ SorterInit
    /\ order_number \in RunOrderNumbers
    /\ current_year \in Years
    /\ order_id = <<>>
    /\ workbook = NoBook
    /\ txt_files = <<>>
    /\ input_file = [dir |-> "work", name |-> <<"a", ".", "x", "l", "s", "x">>]
    /\ has_workbook = FALSE
    /\ output_file = NoPath
    /\ attempts = <<>>
    /\ converter_workbook = NoBook
    /\ disk = {SourceFile(input_file, xls)}

\* processor.save_data_with_formatting(); processed_file = processor.output_file
RunSaveData ==
    LET Returned(r) ==
            /\ ret' = r.ret
            /\ output_file' = r.output_file
            /\ disk' = r.disk
            /\ attempts' = r.attempts
            /\ saved' = IF r.ret = "True" THEN FileAt(r.disk, r.output_file).data.rows
                        ELSE saved
    IN  /\ \E e \in RunAnswers : Returned(save_data_with_formatting(ProcSelf, NoPath, e))
        /\ op' = "save_data_with_formatting"
        /\ pre' = df
        /\ UNCHANGED <<xls, df, args, input_file, has_workbook, converter_workbook>>
        /\ UNCHANGED sortVars
        /\ UNCHANGED bookVars

RunLoad == order_id # <<>> /\ ProcLoadData
RunSave == Succeeded("process_duplicates") /\ RunSaveData

NextRun ==
    \/ FormOrderId
    \/ RunLoad
    \/ PipeFilter
    \/ PipeDedup
    \/ RunSave
    \/ PipeSorterLoad
    \/ PipeSort
    \/ FileCreate
    \/ FileConvert

SpecRun == InitRun /\ [][NextRun]_vars

-----------------------------------------------------------------------------
(* Properties of the whole run *)

StageOrder ==
    <<"init", "load_data", "remove_empty_rows", "process_duplicates",
      "save_data_with_formatting", "sorter_load_data", "sort_data_by_thickness",
      "create_sorted_workbook_auto", "convert_all_sheets">>

StageNo(o) == CHOOSE k \in 1..Len(StageOrder) : StageOrder[k] = o

\* C25: process_file runs load, filter, deduplicate, save, classify, build
\* workbook, export TXT in this order; a stage starts only when the stage
\* before it has returned True; once a stage has returned False nothing
\* changes any more; the processed file, the workbook and the text files
\* are each created by their own stage only, and no file on disk is removed
\* or rewritten by a later stage.
C25_StagesInOrder ==
    [][/\ op' # op =>
            /\ StageNo(op') = StageNo(op) + 1
            /\ op # "init" => ret = "True"
       /\ ret = "False" => UNCHANGED vars
       /\ saved' # saved => op' = "save_data_with_formatting"
       /\ workbook' # workbook => op' = "create_sorted_workbook_auto"
       /\ txt_files' # txt_files => op' = "convert_all_sheets"
       /\ \A f \in disk : f \in disk']_vars

\* the workbook stage failed after the processed file had been written:
\* the file is on disk, no workbook and no text file exists
C25_Witness ==
    /\ op = "create_sorted_workbook_auto"
    /\ ret = "False"
    /\ Exists(disk, output_file)
    /\ FileAt(disk, output_file).data.rows = saved
    /\ saved # <<>>
    /\ workbook = NoBook
    /\ txt_files = <<>>

-----------------------------------------------------------------------------
(* The three parsers of the quantity on the same cells: the deduplication   *)
(* reads them in column J of a raw sheet, the sorter and the workbook in    *)
(* column G of a sheet of the processed layout.                             *)

QuantityCells ==
    {Null, Num(5), Num(0 - 3), Flt(25), Flt(35), Flt(0 - 15),
     Txt(<<"2", ",", "5">>), Txt(<<" ", "7", " ">>), Txt(<<"1", " ", "0", "0", "0">>),
     Txt(<<"x">>), Bool(TRUE), Bool(FALSE), Date}

InitParse ==
    /\ ProcInit
    /\ DiskInit
    /\ BookInit
    /\ \E q1 \in QuantityCells, q2 \in QuantityCells :
          /\ xls = <<SheetHeader,
                     SheetRow(1, Txt(Desc10), Txt(<<"S">>), Txt(K1), q1),
                     SheetRow(2, Txt(Desc10), Txt(<<"S">>), Txt(K2), q2)>>
          /\ saved = <<HeaderRow, ProcessedRow(1, Txt(Desc10), q1),
                       ProcessedRow(2, Txt(Desc10), q2)>>
    /\ sdf = NoDf
    /\ sorted = FALSE
    /\ thickness_groups = <<>>
    /\ unmatched_rows = <<>>
    /\ total_input_quantity = 0
    /\ total_grouped_quantity = 0

ParseDedup == Succeeded("load_data") /\ ProcessDuplicates(DefaultArgs)
ParseSorterLoad == Succeeded("process_duplicates") /\ SorterLoadData
ParseCreate == Succeeded("sort_data_by_thickness") /\ CreateWorkbook

NextParse == LoadData \/ ParseDedup \/ ParseSorterLoad \/ PipeSort \/ ParseCreate

SpecParse == InitParse /\ [][NextParse]_vars

\* all three stages have read the two cells
ParsedByAll == BookOk /\ df.loaded /\ NCols(df) = 7 /\ Len(df.rows) = 3

\* the integer the deduplication left in the sum column of data row k
DedupInteger(k) == df.rows[k + 1][7].n

\* C26: for every value of a quantity cell (text, integer, decimal,
\* boolean, date, null) the integer the deduplication obtains is the
\* integer that sort_data_by_thickness adds to its totals and that
\* _populate_worksheet writes as QuantityOrdered.
C26_SameParse ==
    ParsedByAll =>
        /\ total_input_quantity = DedupInteger(1) + DedupInteger(2)
        /\ total_grouped_quantity = DedupInteger(1) + DedupInteger(2)
        /\ \A k \in 1..2 : workbook.sheets[1].rows[k + 1][3] = Num(DedupInteger(k))

-----------------------------------------------------------------------------
(* The sorter and the converter over files whose rows are of the groups     *)
(* 1mm, 1.5mm and 15mm.                                                     *)

Desc150 == <<"-", "1", "5", " ">>

TxtRows ==
    { BookRow(Num(1), d, Num(3), Txt(K1)) : d \in {Txt(Desc10), Txt(Desc15), Txt(Desc150)} }

InitTxt ==
    /\ xls = <<>>
    /\ ProcInit
    /\ DiskInit
    /\ \E n \in 0..MaxRows : saved \in BookFiles(n, TxtRows)
    /\ order_number = <<>>
    /\ current_year \in Years
    /\ order_id = <<>>
    /\ workbook = NoBook
    /\ txt_files = <<>>
    /\ sdf = NoDf
    /\ sorted = FALSE
    /\ thickness_groups = <<>>
    /\ unmatched_rows = <<>>
    /\ total_input_quantity = 0
    /\ total_grouped_quantity = 0

TxtSort == Succeeded("sorter_load_data") /\ SortDataByThickness
TxtCreate == Succeeded("sort_data_by_thickness") /\ CreateWorkbook

NextTxt == SorterLoadData \/ TxtSort \/ TxtCreate \/ FileConvert

SpecTxt == InitTxt /\ [][NextTxt]_vars

\* C28: convert_all_sheets names the text files of two different sheets of
\* one workbook differently, so the number of distinct files it created is
\* the number of sheets it converted.
C28_DistinctFileNames ==
    Converted =>
        /\ \A i \in 1..Len(txt_files) : \A j \in 1..Len(txt_files) :
              workbook.sheets[i].title # workbook.sheets[j].title
                  => txt_files[i] # txt_files[j]
        /\ Cardinality({txt_files[k] : k \in 1..Len(txt_files)}) = Len(workbook.sheets)

-----------------------------------------------------------------------------
(* The sorter and the workbook over rows whose quantities are numbers,      *)
(* texts and empty cells, in the group 1mm and in the unclassified bucket.  *)

TotalsRows ==
    { <<a, d, Txt(<<"S">>), Num(2), Num(3), Txt(K1), q>> :
        a \in {Num(1), Txt(OrderID)}, d \in {Txt(Desc10), Null},
        q \in {Num(5), Flt(35), Txt(<<"2", ",", "5">>), Null} }

InitTotals ==
    /\ xls = <<>>
    /\ ProcInit
    /\ DiskInit
    /\ BookInit
    /\ \E n \in 0..(MaxRows - 1) : saved \in BookFiles(n, TotalsRows)
    /\ sdf = NoDf
    /\ sorted = FALSE
    /\ thickness_groups = <<>>
    /\ unmatched_rows = <<>>
    /\ total_input_quantity = 0
    /\ total_grouped_quantity = 0

NextTotals == SorterLoadData \/ TxtSort \/ TxtCreate

SpecTotals == InitTotals /\ [][NextTotals]_vars

QuantityOrderedOf(record) == record[3].n

RECURSIVE SheetQuantity(_, _)
\* the sum of QuantityOrdered over the records in the sheet rows 2..k
SheetQuantity(sheet, k) ==
    IF k < 2 THEN 0
    ELSE SheetQuantity(sheet, k - 1)
         + (IF sheet.rows[k] # <<>> THEN QuantityOrderedOf(sheet.rows[k]) ELSE 0)

RECURSIVE WorkbookQuantity(_)
WorkbookQuantity(sheets) ==
    IF sheets = <<>> THEN 0
    ELSE WorkbookQuantity(Tail(sheets)) + SheetQuantity(Head(sheets), Len(Head(sheets).rows))

NoSentinelIn(rows) == \A k \in 1..Len(rows) : DataRow(rows[k])

\* the sheet of a label holds records whose quantities add up to the total
\* of the rows
SheetTotalIs(title, rows) ==
    /\ HasSheet(title)
    /\ \A k \in 1..Len(workbook.sheets) :
          workbook.sheets[k].title = title =>
              SheetQuantity(workbook.sheets[k], Len(workbook.sheets[k].rows)) = SumRows(rows).v

\* C29: in a created workbook, for every thickness group and for the
\* unclassified bucket none of whose rows has a header sentinel in its first
\* cell, the QuantityOrdered of the records of its sheet add up to the
\* quantity sort_data_by_thickness counted for its rows; when that is so for
\* all of them, the QuantityOrdered of all sheets add up to
\* total_grouped_quantity.
C29_SheetTotals ==
    BookOk =>
        /\ \A g \in 1..Len(thickness_groups) :
              NoSentinelIn(thickness_groups[g].rows) =>
                  SheetTotalIs(thickness_groups[g].thickness, thickness_groups[g].rows)
        /\ (unmatched_rows # <<>> /\ NoSentinelIn(unmatched_rows)) =>
              SheetTotalIs(UnmatchedTitle, unmatched_rows)
        /\ (/\ NoSentinelIn(unmatched_rows)
            /\ \A g \in 1..Len(thickness_groups) : NoSentinelIn(thickness_groups[g].rows)) =>
              WorkbookQuantity(workbook.sheets) = total_grouped_quantity

\* a group and the bucket, one row each, a text quantity and a decimal one:
\* "2,5" counts 2 and 3.5 counts 4
C29_Witness ==
    /\ BookOk
    /\ Len(workbook.sheets) = 2
    /\ Len(thickness_groups) = 1
    /\ Len(unmatched_rows) = 1
    /\ NoSentinelIn(unmatched_rows)
    /\ NoSentinelIn(thickness_groups[1].rows)
    /\ thickness_groups[1].rows[1].data[7] = Txt(<<"2", ",", "5">>)
    /\ unmatched_rows[1].data[7] = Flt(35)
    /\ total_grouped_quantity = 6
    /\ WorkbookQuantity(workbook.sheets) = 6

-----------------------------------------------------------------------------
(* The methods of the three classes called in any order, also before the    *)
(* call that gives them their data.                                         *)

\* ExcelToTxtConverter.convert_sheet_to_txt: [ret, file]
convert_sheet_to_txt_Unchecked(conv, sheet_name, input_name, year) ==
    [ret |-> "True", file |-> txt_filename(sheet_name, input_name, year)]

convert_sheet_to_txt(conv, sheet_name, input_name, year) ==
    IF conv = NoBook THEN [ret |-> "False", file |-> <<>>]
    ELSE IF \A k \in 1..Len(conv.sheets) : conv.sheets[k].title # sheet_name
    THEN [ret |-> "False", file |-> <<>>]
    ELSE [ret |-> "True", file |-> txt_filename(sheet_name, input_name, year)]

EarlySheets == {<<SheetHeader, SheetRow(1, Txt(Desc10), Txt(<<"S">>), Txt(K1), Num(5))>>}

EarlyRows ==
    { BookRow(Num(1), d, Num(3), Txt(K1)) : d \in {Txt(Desc10), Txt(Desc15)} }

InitEarly ==
    /\ xls \in EarlySheets
    /\ ProcInit
    /\ DiskInit
    /\ \E n \in 0..(MaxRows - 2) : saved \in BookFiles(n, EarlyRows)
    /\ order_number = <<>>
    /\ current_year \in Years
    /\ order_id = <<>>
    /\ workbook = NoBook
    /\ txt_files = <<>>
    /\ sdf = NoDf
    /\ sorted = FALSE
    /\ thickness_groups = <<>>
    /\ unmatched_rows = <<>>
    /\ total_input_quantity = 0
    /\ total_grouped_quantity = 0

\* ExcelProcessor.load_data, whatever was called before it
EarlyLoadData ==
    /\ ~df.loaded
    /\ df' = ReadExcel(xls)
    /\ op' = "load_data"
    /\ ret' = "True"
    /\ pre' = df
    /\ UNCHANGED <<xls, args, saved>>
    /\ UNCHANGED sortVars
    /\ UNCHANGED bookVars
    /\ UNCHANGED diskVars

EarlyFilter == RemoveEmptyRows(DefaultArgs)
EarlyDedup == ProcessDuplicates(DefaultArgs)

\* ExcelToTxtConverter(thickness_file).load_workbook(); the constructor
\* needs the file to exist
ConverterLoadWorkbook ==
    /\ workbook # NoBook
    /\ converter_workbook' = workbook
    /\ op' = "load_workbook"
    /\ ret' = "True"
    /\ UNCHANGED <<xls, saved, df, args, pre, input_file, has_workbook, output_file,
                   disk, attempts>>
    /\ UNCHANGED sortVars
    /\ UNCHANGED bookVars

SheetNames ==
    {workbook.sheets[k].title : k \in 1..Len(workbook.sheets)} \cup {<<"9", "m", "m">>}

\* the file is written, if it is not there yet
WithFile(files, file) ==
    IF \E k \in 1..Len(files) : files[k] = file THEN files ELSE Append(files, file)

\* converter.convert_sheet_to_txt(sheet_name)
ConverterConvertSheet ==
    LET Returned(r) ==
            /\ ret' = r.ret
            /\ txt_files' = IF r.ret = "True" THEN WithFile(txt_files, r.file) ELSE txt_files
    IN  /\ workbook # NoBook
        /\ \E sheet_name \in SheetNames :
              Returned(convert_sheet_to_txt(converter_workbook, sheet_name,
                                            workbook.name, current_year))
        /\ op' = "convert_sheet_to_txt"
        /\ UNCHANGED <<xls, saved, df, args, pre, order_number, current_year, order_id,
                       workbook>>
        /\ UNCHANGED sortVars
        /\ UNCHANGED diskVars

\* converter.convert_all_sheets(): ret is "[]" for the empty list
ConverterConvertAll ==
    LET Returned(created_files) ==
            /\ ret' = IF created_files = <<>> THEN "[]" ELSE "list"
            /\ txt_files' = IF converter_workbook = NoBook THEN txt_files
                            ELSE created_files
    IN  /\ workbook # NoBook
        /\ Returned(IF converter_workbook = NoBook THEN <<>>
                    ELSE convert_all_sheets(converter_workbook, current_year))
        /\ op' = "convert_all_sheets"
        /\ UNCHANGED <<xls, saved, df, args, pre, order_number, current_year, order_id,
                       workbook>>
        /\ UNCHANGED sortVars
        /\ UNCHANGED diskVars

NextEarly ==
    \/ EarlyLoadData
    \/ EarlyFilter
    \/ EarlyDedup
    \/ SorterLoadData
    \/ SortDataByThickness
    \/ CreateWorkbook
    \/ ConverterLoadWorkbook
    \/ ConverterConvertSheet
    \/ ConverterConvertAll

SpecEarly == InitEarly /\ [][NextEarly]_vars

\* what a refused call leaves alone: everything but the record of the call
Untouched ==
    UNCHANGED <<xls, df, saved, sdf, sorted, thickness_groups, unmatched_rows,
                total_input_quantity, total_grouped_quantity, order_number,
                current_year, workbook, txt_files, input_file, has_workbook,
                output_file, disk, attempts, converter_workbook>>

\* C30: a method called before the call that gives it its data returns
\* without raising and changes nothing: remove_empty_rows and
\* process_duplicates_with_order_preservation return False while no table
\* is loaded, sort_data_by_thickness returns False while the sorter has
\* loaded nothing, create_sorted_workbook_auto returns False and writes no
\* workbook while nothing is sorted, convert_sheet_to_txt returns False and
\* convert_all_sheets returns the empty list, writing no file, while no
\* workbook is loaded.
C30_RefusedBeforePrerequisite ==
    [][/\ (op' \in {"remove_empty_rows", "process_duplicates"} /\ ~df.loaded) =>
             ret' = "False" /\ Untouched
       /\ (op' = "sort_data_by_thickness" /\ ~sdf.loaded) =>
             ret' = "False" /\ Untouched
       /\ (op' = "create_sorted_workbook_auto" /\ ~sorted) =>
             ret' = "False" /\ Untouched
       /\ (op' = "convert_sheet_to_txt" /\ converter_workbook = NoBook) =>
             ret' = "False" /\ Untouched
       /\ (op' = "convert_all_sheets" /\ converter_workbook = NoBook) =>
             ret' = "[]" /\ Untouched]_vars

\* a workbook exists, its converter has loaded nothing, and
\* convert_all_sheets has returned the empty list and written no file
C30_Witness ==
    /\ op = "convert_all_sheets"
    /\ ret = "[]"
    /\ workbook # NoBook
    /\ workbook.sheets # <<>>
    /\ converter_workbook = NoBook
    /\ txt_files = <<>>
    /\ ~df.loaded

====
